---- MODULE Spec2Model ----
(***************************************************************************)
(* Income Recording Client System: the record (IncomeItem), its field      *)
(* validators and textual encodings, and the collection manager            *)
(* (IncomeManager).                                                        *)
(*                                                                         *)
(* A Python str is a sequence of characters.  An ASCII character is the    *)
(* one-character string; a character outside ASCII is named by its code    *)
(* point ("U+00C9").  A Python value handed to a validator is a tagged     *)
(* record: PyStr(s), PyFloat(m), PyNaN, PyInf, PyNone.  A finite float is  *)
(* kept as an integer number of thousandths (m = 1005 is 1.005).           *)
(***************************************************************************)
EXTENDS Integers, Sequences, FiniteSets, TLC

VARIABLES
    op,            \* name of the operation that produced the current state
    ret,           \* what that operation returned or raised
    income_items,  \* IncomeManager.income_items: code -> record
    item,          \* a standalone IncomeItem, or NoItem
    line,          \* the last line rendered from item, or NoLine
    src,           \* the record the line was rendered from
    arg,           \* the argument of a validator or of calculate_checksum
    out,           \* its result
    data_file,     \* the file at IncomeManager.data_file
    csv_file,      \* the file at IncomeManager.csv_file
    pc,            \* where IRCSApplication.run stands
    choice         \* what get_user_choice returned last

vars == <<op, ret, income_items, item, line, src, arg, out,
          data_file, csv_file, pc, choice>>

\* the files of the manager, and the position of the application loop
files == <<data_file, csv_file>>
loop == <<pc, choice>>

----------------------------------------------------------------------------
(* Characters and the str methods the program uses *)

UpperSeq ==
    <<"A","B","C","D","E","F","G","H","I","J","K","L","M",
      "N","O","P","Q","R","S","T","U","V","W","X","Y","Z">>

LowerSeq ==
    <<"a","b","c","d","e","f","g","h","i","j","k","l","m",
      "n","o","p","q","r","s","t","u","v","w","x","y","z">>

DigitSeq == <<"0","1","2","3","4","5","6","7","8","9">>

Range(s) == {s[i] : i \in DOMAIN s}

AsciiUpper == Range(UpperSeq)
AsciiLower == Range(LowerSeq)
AsciiDigit == Range(DigitSeq)

\* Characters outside ASCII: E-acute (upper and lower case), sharp s, and
\* ARABIC-INDIC DIGIT ONE.
NonAsciiUpper == {"U+00C9"}
NonAsciiLower == {"U+00E9", "U+00DF"}
NonAsciiDigit == {"U+0661"}

Whitespace == {" ", "\t", "\n"}

\* str.isupper() of one character
isupper(c) == c \in AsciiUpper \cup NonAsciiUpper

\* str.isdigit() of one character; the same characters are matched by \d in a
\* str pattern and converted by int() and float()
isdigit(c) == c \in AsciiDigit \cup NonAsciiDigit

DigitValue(c) ==
    IF c \in AsciiDigit THEN (CHOOSE i \in 1..10 : DigitSeq[i] = c) - 1
    ELSE 1

\* str.upper() of one character (a sequence: sharp s becomes "SS")
UpperChar(c) ==
    IF c \in AsciiLower THEN <<UpperSeq[CHOOSE i \in 1..26 : LowerSeq[i] = c]>>
    ELSE IF c = "U+00E9" THEN <<"U+00C9">>
    ELSE IF c = "U+00DF" THEN <<"S", "S">>
    ELSE <<c>>

RECURSIVE upper(_)
upper(s) == IF s = <<>> THEN <<>> ELSE UpperChar(Head(s)) \o upper(Tail(s))

RECURSIVE lstrip(_)
lstrip(s) ==
    IF s # <<>> /\ Head(s) \in Whitespace THEN lstrip(Tail(s)) ELSE s

RECURSIVE rstrip(_)
rstrip(s) ==
    IF s # <<>> /\ s[Len(s)] \in Whitespace
    THEN rstrip(SubSeq(s, 1, Len(s) - 1)) ELSE s

strip(s) == rstrip(lstrip(s))

\* str.split(sep) for a one-character separator: the list of the parts
RECURSIVE split(_, _)
split(s, sep) ==
    IF \E i \in DOMAIN s : s[i] = sep
    THEN LET i == CHOOSE k \in DOMAIN s :
                     s[k] = sep /\ \A j \in 1..(k - 1) : s[j] # sep
         IN  <<SubSeq(s, 1, i - 1)>> \o split(SubSeq(s, i + 1, Len(s)), sep)
    ELSE <<s>>

\* sep.join(parts)
RECURSIVE join(_, _)
join(parts, sep) ==
    IF parts = <<>> THEN <<>>
    ELSE IF Len(parts) = 1 THEN parts[1]
    ELSE parts[1] \o <<sep>> \o join(Tail(parts), sep)

\* the number written by a string of decimal digits
RECURSIVE DigitsValue(_)
DigitsValue(s) ==
    IF s = <<>> THEN 0
    ELSE 10 * DigitsValue(SubSeq(s, 1, Len(s) - 1)) + DigitValue(s[Len(s)])

\* int(s) of a str of decimal digits (surrounding whitespace is ignored)
int(s) == DigitsValue(strip(s))

\* str(n) of a natural number
RECURSIVE str(_)
str(n) ==
    IF n < 10 THEN <<DigitSeq[n + 1]>>
    ELSE str(n \div 10) \o <<DigitSeq[(n % 10) + 1]>>

\* "$" of a str pattern matches at the end and before one final newline
AtEnd(s, n) == Len(s) = n \/ (Len(s) = n + 1 /\ s[n + 1] = "\n")

----------------------------------------------------------------------------
(* Python values *)

PyStr(s) == [t |-> "str", s |-> s]
PyFloat(m) == [t |-> "float", m |-> m]
PyNaN == [t |-> "nan"]
PyInf == [t |-> "inf"]
PyNone == [t |-> "none"]

Ok(v) == [ok |-> TRUE, val |-> v]
Raise(e) == [ok |-> FALSE, err |-> e]

----------------------------------------------------------------------------
(* Floats: float(), comparison with 0, round(x, 2) and the ".2f" format *)

PyNegInf == [t |-> "-inf"]

IsFloatValue(x) == x.t \in {"float", "nan", "inf", "-inf"}

AllDigits(s) == \A i \in DOMAIN s : isdigit(s[i])

\* the first three fractional digits as thousandths (the strings the model
\* parses carry at most three fractional digits)
FracMills(f) ==
    LET p == f \o <<"0", "0", "0">> IN DigitsValue(SubSeq(p, 1, 3))

\* float(s) of a str: surrounding whitespace is ignored, then an optional
\* sign, then "nan", "inf", "infinity" or a decimal numeral
ParseFloat(s) ==
    LET Numeral(neg, ps) ==
            LET ip  == ps[1]
                fp  == IF Len(ps) = 2 THEN ps[2] ELSE <<>>
                mag == 1000 * DigitsValue(ip) + FracMills(fp)
            IN  IF /\ Len(ps) \in {1, 2}
                   /\ AllDigits(ip) /\ AllDigits(fp)
                   /\ Len(ip) + Len(fp) >= 1
                THEN Ok(PyFloat(IF neg THEN 0 - mag ELSE mag))
                ELSE Raise(<<"could not convert string to float">>)
        Unsigned(neg, u, w) ==
            IF w = <<"N", "A", "N">> THEN Ok(PyNaN)
            ELSE IF w \in {<<"I", "N", "F">>,
                           <<"I", "N", "F", "I", "N", "I", "T", "Y">>}
            THEN Ok(IF neg THEN PyNegInf ELSE PyInf)
            ELSE Numeral(neg, split(u, "."))
        Signed(neg, u) == Unsigned(neg, u, upper(u))
        Stripped(b) ==
            LET neg == b # <<>> /\ b[1] = "-"
                sgn == b # <<>> /\ b[1] \in {"-", "+"}
            IN  Signed(neg, IF sgn THEN Tail(b) ELSE b)
    IN  Stripped(strip(s))

\* float(amount): a float is returned as it is, a str is parsed, None is a
\* TypeError
float(amount) ==
    IF IsFloatValue(amount) THEN Ok(amount)
    ELSE IF amount.t = "str" THEN ParseFloat(amount.s)
    ELSE Raise(<<"float() argument must be a string or a real number">>)

\* amount <= 0 and amount < 0 (every comparison with NaN is false)
LeZero(x) == x.t = "-inf" \/ (x.t = "float" /\ x.m <= 0)
LtZero(x) == x.t = "-inf" \/ (x.t = "float" /\ x.m < 0)
GtZero(x) == x.t = "inf" \/ (x.t = "float" /\ x.m > 0)
GeZero(x) == x.t = "inf" \/ (x.t = "float" /\ x.m >= 0)

\* Thousandths m with m % 10 = 5 whose double is not exactly m/1000 (m not a
\* multiple of 125) and lies above it: 0.005, 0.025, 0.035.  The other such
\* values of the input sets (0.015, 1.005) lie below.
StoredAbove == {5, 25, 35}

\* round(x, 2) of a finite float, in thousandths: the nearest hundredth of
\* the stored double, an exact tie going to the even hundredth
RoundMills(m) ==
    LET q == m \div 10
        r == m % 10
        up == IF r # 5 THEN r > 5
              ELSE IF m % 125 = 0 THEN q % 2 = 1
              ELSE m \in StoredAbove
    IN  IF up THEN 10 * (q + 1) ELSE 10 * q

\* round(x, 2): NaN and the infinities are returned unchanged
round2(x) == IF x.t = "float" THEN PyFloat(RoundMills(x.m)) ELSE x

TwoDigits(n) == <<DigitSeq[(n \div 10) + 1], DigitSeq[(n % 10) + 1]>>

\* f"{x:.2f}"
Format2f(x) ==
    IF x.t = "nan" THEN <<"n", "a", "n">>
    ELSE IF x.t = "inf" THEN <<"i", "n", "f">>
    ELSE IF x.t = "-inf" THEN <<"-", "i", "n", "f">>
    ELSE LET c == RoundMills(x.m) \div 10
             a == IF c < 0 THEN 0 - c ELSE c
         IN  (IF c < 0 THEN <<"-">> ELSE <<>>)
             \o str(a \div 100) \o <<".">> \o TwoDigits(a % 100)

\* x == y of two floats (NaN equals nothing, itself included)
FloatEq(x, y) == x.t # "nan" /\ x = y

----------------------------------------------------------------------------
(* IncomeItem: the field validators *)

MaxDescriptionLen == 20

\* re.match(r'^[A-Z]{2}\d{3}$', code)
MatchCode(s) ==
    /\ AtEnd(s, 5)
    /\ s[1] \in AsciiUpper /\ s[2] \in AsciiUpper
    /\ isdigit(s[3]) /\ isdigit(s[4]) /\ isdigit(s[5])

validate_and_set_code(code) ==
    IF code.t # "str" THEN Raise(<<"Income code must be a string">>)
    ELSE LET Set(c) ==
                 IF ~MatchCode(c)
                 THEN Raise(<<"Income code must be 2 letters followed by 3 digits">>)
                 ELSE Ok(c)
         IN  Set(upper(strip(code.s)))

\* variant: a description of exactly 20 characters is refused
validate_and_set_description_Under20(description) ==
    IF description.t # "str" THEN Raise(<<"Description must be a string">>)
    ELSE LET Set(d) ==
                 IF Len(d) = 0 THEN Raise(<<"Description cannot be empty">>)
                 ELSE IF Len(d) >= MaxDescriptionLen
                 THEN Raise(<<"Description cannot exceed 20 characters">>)
                 ELSE Ok(d)
         IN  Set(strip(description.s))

validate_and_set_description(description) ==
    IF description.t # "str" THEN Raise(<<"Description must be a string">>)
    ELSE LET Set(d) ==
                 IF Len(d) = 0 THEN Raise(<<"Description cannot be empty">>)
                 ELSE IF Len(d) > MaxDescriptionLen
                 THEN Raise(<<"Description cannot exceed 20 characters">>)
                 ELSE Ok(d)
         IN  Set(strip(description.s))

\* re.match(r'^\d{2}/\d{2}/\d{4}$', date)
MatchDate(s) ==
    /\ AtEnd(s, 10)
    /\ \A i \in {1, 2, 4, 5, 7, 8, 9, 10} : isdigit(s[i])
    /\ s[3] = "/" /\ s[6] = "/"

\* variant: every fourth year is a leap year
IsLeap_EveryFourth(year) == year % 4 = 0

IsLeap(year) == (year % 4 = 0 /\ year % 100 # 0) \/ year % 400 = 0

DaysInMonth(year, month) ==
    IF month = 2 THEN (IF IsLeap(year) THEN 29 ELSE 28)
    ELSE IF month \in {4, 6, 9, 11} THEN 30
    ELSE 31

MINYEAR == 1
MAXYEAR == 9999

\* datetime(year, month, day) does not raise ValueError
datetime(year, month, day) ==
    /\ MINYEAR <= year /\ year <= MAXYEAR
    /\ 1 <= month /\ month <= 12
    /\ 1 <= day /\ day <= DaysInMonth(year, month)

validate_and_set_date(date) ==
    IF date.t # "str" THEN Raise(<<"Date must be a string">>)
    ELSE LET Parsed(d, p) ==
                 IF ~datetime(int(p[3]), int(p[2]), int(p[1]))
                 THEN Raise(<<"Invalid date values">>)
                 ELSE Ok(d)
             Set(d) ==
                 IF ~MatchDate(d)
                 THEN Raise(<<"Date must be in DD/MM/YYYY format">>)
                 ELSE Parsed(d, split(d, "/"))
         IN  Set(strip(date.s))

\* variant: an income amount of 0 is accepted
validate_and_set_income_amount_AllowsZero(amount) ==
    LET Set(f) ==
            IF ~f.ok THEN Raise(<<"Income amount must be a valid number">>)
            ELSE IF LtZero(f.val) THEN Raise(<<"Income amount must be positive">>)
            ELSE Ok(round2(f.val))
    IN  Set(float(amount))

validate_and_set_income_amount(amount) ==
    LET Set(f) ==
            IF ~f.ok THEN Raise(<<"Income amount must be a valid number">>)
            ELSE IF LeZero(f.val) THEN Raise(<<"Income amount must be positive">>)
            ELSE Ok(round2(f.val))
    IN  Set(float(amount))

validate_and_set_wht_amount(amount) ==
    LET Set(f) ==
            IF ~f.ok THEN Raise(<<"WHT amount must be a valid number">>)
            ELSE IF LtZero(f.val) THEN Raise(<<"WHT amount cannot be negative">>)
            ELSE Ok(round2(f.val))
    IN  Set(float(amount))

----------------------------------------------------------------------------
(* IncomeItem: construction, encodings, decodings, update *)

NoItem == [code |-> <<>>]

\* variant: the description is validated before the code
IncomeItem_DescriptionFirst(code, description, date, income_amount, wht_amount) ==
    LET Set(d, c, dt, i, w) ==
            IF ~d.ok THEN d
            ELSE IF ~c.ok THEN c
            ELSE IF ~dt.ok THEN dt
            ELSE IF ~i.ok THEN i
            ELSE IF ~w.ok THEN w
            ELSE Ok([code |-> c.val, description |-> d.val, date |-> dt.val,
                     income_amount |-> i.val, wht_amount |-> w.val])
    IN  Set(validate_and_set_description(description),
            validate_and_set_code(code),
            validate_and_set_date(date),
            validate_and_set_income_amount(income_amount),
            validate_and_set_wht_amount(wht_amount))

\* IncomeItem.__init__: the validators run in the order of the assignments;
\* the first one that raises ends the construction
IncomeItem(code, description, date, income_amount, wht_amount) ==
    LET Set(c, d, dt, i, w) ==
            IF ~c.ok THEN c
            ELSE IF ~d.ok THEN d
            ELSE IF ~dt.ok THEN dt
            ELSE IF ~i.ok THEN i
            ELSE IF ~w.ok THEN w
            ELSE Ok([code |-> c.val, description |-> d.val, date |-> dt.val,
                     income_amount |-> i.val, wht_amount |-> w.val])
    IN  Set(validate_and_set_code(code),
            validate_and_set_description(description),
            validate_and_set_date(date),
            validate_and_set_income_amount(income_amount),
            validate_and_set_wht_amount(wht_amount))

calculate_checksum(l) ==
    LET capital_count == Cardinality({i \in DOMAIN l : isupper(l[i])})
        number_decimal_count ==
            Cardinality({i \in DOMAIN l : isdigit(l[i]) \/ l[i] = "."})
    IN  capital_count + number_decimal_count

\* the CSV line before the checksum is appended
CsvFields(self) ==
    join(<<self.code, self.description, self.date,
           Format2f(self.income_amount), Format2f(self.wht_amount)>>, ",")

\* variant: the checksum is taken of the line with the checksum field on it
to_csv_line_CountsOwnDigits(self) ==
    LET csv_line == CsvFields(self)
        checksum == calculate_checksum(csv_line)
        whole == csv_line \o <<",">> \o str(checksum)
    IN  csv_line \o <<",">> \o str(calculate_checksum(whole))

to_csv_line(self) ==
    LET csv_line == CsvFields(self)
        checksum == calculate_checksum(csv_line)
    IN  csv_line \o <<",">> \o str(checksum)

to_file_line(self) ==
    join(<<self.code, self.description, self.date,
           Format2f(self.income_amount), Format2f(self.wht_amount)>>, "|")

Wrap(prefix, r) == IF r.ok THEN r ELSE Raise(<<prefix>> \o r.err)

from_file_line(l) ==
    LET Build(parts, income_amount, wht_amount) ==
            IF ~income_amount.ok THEN income_amount
            ELSE IF ~wht_amount.ok THEN wht_amount
            ELSE IncomeItem(PyStr(parts[1]), PyStr(parts[2]),
                            PyStr(parts[3]),
                            income_amount.val, wht_amount.val)
        Parse(parts) ==
            IF Len(parts) # 5 THEN Raise(<<"Invalid file line format">>)
            ELSE Build(parts, float(PyStr(parts[4])), float(PyStr(parts[5])))
    IN  Wrap("Error parsing file line: ", Parse(split(strip(l), "|")))

\* variant: a line whose sixth field is not the checksum of its first five
\* is refused
from_csv_line_VerifiesChecksum(l) ==
    LET Build(parts, income_amount, wht_amount) ==
            IF ~income_amount.ok THEN income_amount
            ELSE IF ~wht_amount.ok THEN wht_amount
            ELSE IncomeItem(PyStr(parts[1]), PyStr(parts[2]),
                            PyStr(parts[3]),
                            income_amount.val, wht_amount.val)
        Parse(parts) ==
            IF Len(parts) < 5 THEN Raise(<<"Invalid CSV line format">>)
            ELSE IF /\ Len(parts) > 5
                    /\ parts[6] # str(calculate_checksum(
                                         join(SubSeq(parts, 1, 5), ",")))
            THEN Raise(<<"Checksum mismatch">>)
            ELSE Build(parts, float(PyStr(parts[4])), float(PyStr(parts[5])))
    IN  Wrap("Error parsing CSV line: ", Parse(split(strip(l), ",")))

from_csv_line(l) ==
    LET Build(parts, income_amount, wht_amount) ==
            IF ~income_amount.ok THEN income_amount
            ELSE IF ~wht_amount.ok THEN wht_amount
            ELSE IncomeItem(PyStr(parts[1]), PyStr(parts[2]),
                            PyStr(parts[3]),
                            income_amount.val, wht_amount.val)
        Parse(parts) ==
            IF Len(parts) < 5 THEN Raise(<<"Invalid CSV line format">>)
            ELSE Build(parts, float(PyStr(parts[4])), float(PyStr(parts[5])))
    IN  Wrap("Error parsing CSV line: ", Parse(split(strip(l), ",")))

\* IncomeItem.update: each supplied value is validated and assigned in turn.
\* The result carries the record as the call leaves it (self) and the
\* exception, if one was raised.
Updated(self, r) == [self |-> self, ok |-> r.ok, err |-> IF r.ok THEN <<>> ELSE r.err]

\* variant: update also assigns the code, from the new description
update_AssignsCode(self, description, date, income_amount, wht_amount) ==
    LET Set(d, dt, i, w) ==
            LET s0 == IF description # PyNone /\ d.ok
                      THEN [self EXCEPT !.code = upper(d.val)] ELSE self
                s1 == IF description # PyNone
                      THEN [s0 EXCEPT !.description = d.val] ELSE s0
                s2 == IF date # PyNone
                      THEN [s1 EXCEPT !.date = dt.val] ELSE s1
                s3 == IF income_amount # PyNone
                      THEN [s2 EXCEPT !.income_amount = i.val] ELSE s2
                s4 == IF wht_amount # PyNone
                      THEN [s3 EXCEPT !.wht_amount = w.val] ELSE s3
            IN  IF description # PyNone /\ ~d.ok THEN Updated(self, d)
                ELSE IF date # PyNone /\ ~dt.ok THEN Updated(s1, dt)
                ELSE IF income_amount # PyNone /\ ~i.ok THEN Updated(s2, i)
                ELSE IF wht_amount # PyNone /\ ~w.ok THEN Updated(s3, w)
                ELSE Updated(s4, Ok(<<>>))
    IN  Set(validate_and_set_description(description),
            validate_and_set_date(date),
            validate_and_set_income_amount(income_amount),
            validate_and_set_wht_amount(wht_amount))

update(self, description, date, income_amount, wht_amount) ==
    LET Set(d, dt, i, w) ==
            LET s1 == IF description # PyNone
                      THEN [self EXCEPT !.description = d.val] ELSE self
                s2 == IF date # PyNone
                      THEN [s1 EXCEPT !.date = dt.val] ELSE s1
                s3 == IF income_amount # PyNone
                      THEN [s2 EXCEPT !.income_amount = i.val] ELSE s2
                s4 == IF wht_amount # PyNone
                      THEN [s3 EXCEPT !.wht_amount = w.val] ELSE s3
            IN  IF description # PyNone /\ ~d.ok THEN Updated(self, d)
                ELSE IF date # PyNone /\ ~dt.ok THEN Updated(s1, dt)
                ELSE IF income_amount # PyNone /\ ~i.ok THEN Updated(s2, i)
                ELSE IF wht_amount # PyNone /\ ~w.ok THEN Updated(s3, w)
                ELSE Updated(s4, Ok(<<>>))
    IN  Set(validate_and_set_description(description),
            validate_and_set_date(date),
            validate_and_set_income_amount(income_amount),
            validate_and_set_wht_amount(wht_amount))

\* variant: the net amount without the tax taken off
get_net_amount_Gross(self) == round2(self.income_amount)

\* get_net_amount
get_net_amount(self) ==
    IF self.income_amount.t = "float" /\ self.wht_amount.t = "float"
    THEN round2(PyFloat(self.income_amount.m - self.wht_amount.m))
    ELSE IF self.income_amount.t = "nan" \/ self.wht_amount.t = "nan"
         \/ self.income_amount.t = self.wht_amount.t
    THEN PyNaN
    ELSE IF self.income_amount.t = "inf" THEN PyInf ELSE PyNegInf

\* to_dict
to_dict(self) ==
    [code |-> self.code, description |-> self.description,
     date |-> self.date, income_amount |-> self.income_amount,
     wht_amount |-> self.wht_amount, net_amount |-> get_net_amount(self)]

\* isinstance(other, IncomeItem): the records of the model are the values
\* with a code field, the other Python values carry a tag
isinstance_IncomeItem(other) == "code" \in DOMAIN other

\* variant: equality compares every field
__eq___AllFields(self, other) ==
    IF ~isinstance_IncomeItem(other) THEN FALSE ELSE self = other

\* __eq__
__eq__(self, other) ==
    IF ~isinstance_IncomeItem(other) THEN FALSE ELSE self.code = other.code

\* ord(c) of the characters a code can hold
ord(c) ==
    IF c \in AsciiUpper THEN 64 + (CHOOSE i \in 1..26 : UpperSeq[i] = c)
    ELSE IF c \in AsciiDigit THEN 47 + (CHOOSE i \in 1..10 : DigitSeq[i] = c)
    ELSE IF c = "U+0661" THEN 1633
    ELSE IF c = "U+00C9" THEN 201
    ELSE 63

\* hash(s) of a str: a function of its characters alone, fixed for the life
\* of the process; this polynomial stands for the interpreter's function
HashBits == 16

RECURSIVE hash(_)
hash(s) ==
    IF s = <<>> THEN 0
    ELSE (31 * hash(SubSeq(s, 1, Len(s) - 1)) + ord(s[Len(s)])) % (2 ^ HashBits)

\* __hash__
__hash__(self) == hash(self.code)

----------------------------------------------------------------------------
(* Input sets *)

MaxCodeLen == 6
MaxPad == 1
MaxBodyLen == 22
MaxLineLen == 4

\* all strings of length at most n over the characters S
StringsUpTo(S, n) == UNION {[1..k -> S] : k \in 0..n}

RECURSIVE Repeat(_, _)
Repeat(c, n) == IF n = 0 THEN <<>> ELSE <<c>> \o Repeat(c, n - 1)

Pads == StringsUpTo({" ", "\t"}, MaxPad)

CodeChars == {"N", "n", "1", "U+0661"}

CodeExamples ==
    { <<"I","N","1">>, <<"1","N","0","0","1">>, <<"A","B","C","1","2","3">>,
      <<"I","N","0","1">>, <<"I","N","A","0","1">>, <<"1","2","3","A","B">>,
      <<"i","n","0","0","1">>, <<" ","i","n","0","0","1","\n">>,
      <<"U+00DF","0","0","1">>, <<"I","N","0","0","1">>,
      <<"I","N"," ","0","0","1">> }

NonStrings == {PyNone, PyFloat(12345000), PyNaN}

RawCodes ==
    {PyStr(s) : s \in StringsUpTo(CodeChars, MaxCodeLen) \cup CodeExamples}
        \cup NonStrings

DescBodies ==
    {Repeat("x", n) : n \in 0..MaxBodyLen}
        \cup {<<"a", " ", "b">>, <<"a", "|", "b">>, <<"a", ",", "b">>,
              Repeat("x", MaxDescriptionLen - 1) \o <<" ", "y">>,
              Repeat("x", MaxDescriptionLen - 2) \o <<" ", "y">>}

RawDescriptions ==
    {PyStr(l \o b \o r) : l \in Pads, b \in DescBodies, r \in Pads}
        \cup NonStrings

DayStrs ==
    { <<"0","0">>, <<"0","1">>, <<"2","8">>, <<"2","9">>, <<"3","0">>,
      <<"3","1">>, <<"3","2">>, <<"7">>, <<"U+0661","U+0661">> }
MonthStrs ==
    { <<"0","0">>, <<"0","1">>, <<"0","2">>, <<"0","4">>, <<"1","2">>,
      <<"1","3">>, <<"7">>, <<"0","U+0661">> }
YearStrs ==
    { <<"0","0","0","0">>, <<"0","0","0","1">>, <<"1","9","0","0">>,
      <<"2","0","0","0">>, <<"2","0","2","4">>, <<"2","0","2","5">>,
      <<"9","9","9","9">>, <<"2","5">>, <<"2","0","2","5","0">> }

DateExamples ==
    { <<"2","0","2","5","/","0","7","/","2","5">>, <<"a","b","c">>, <<>>,
      <<" ","2","9","/","0","2","/","2","0","2","4"," ">>,
      <<"2","9","/","0","2","/","2","0","2","4","\n">>,
      <<"2","9"," ","/","0","2","/","2","0","2","4">> }

RawDates ==
    {PyStr(d \o <<s>> \o m \o <<s>> \o y) :
        d \in DayStrs, m \in MonthStrs, y \in YearStrs, s \in {"/", "-"}}
        \cup {PyStr(s) : s \in DateExamples}
        \cup NonStrings

AmountStrs ==
    { <<"a","b","c">>, <<>>, <<"1","2",".","5">>, <<"-","3">>, <<"0">>,
      <<" ","7"," ">>, <<"n","a","n">>, <<"i","n","f">>, <<"1",",","5">>,
      <<".">>, <<"0",".","0","0","1">>, <<"U+0661","0">> }

AmountMills ==
    {0 - 1000, 0 - 10, 0 - 1, 0, 1, 4, 5, 15, 125, 1000, 1005, 12340, 10000000}

RawAmounts ==
    {PyFloat(m) : m \in AmountMills} \cup {PyNaN, PyInf, PyNegInf, PyNone}
        \cup {PyStr(s) : s \in AmountStrs}

LineChars == {"A", "a", "1", ".", ",", "U+00C9", "U+0661", " "}

RegressionLine ==
    <<"I","N","0","0","1",",",
      "F","r","e","e","l","a","n","c","e"," ","W","o","r","k",",",
      "2","5","/","0","7","/","2","0","2","5",",",
      "1","0","0","0","0",".","0","0",",","1","0","0","0",".","0","0">>

ChecksumLines == StringsUpTo(LineChars, MaxLineLen) \cup {RegressionLine}

----------------------------------------------------------------------------
(* The validators, the constructor, update and the checksum applied to     *)
(* drawn arguments                                                         *)

NoArg == [f |-> "none"]
NoOut == [ok |-> FALSE, err |-> <<"not called">>]
NoRet == [value |-> FALSE, err |-> <<>>]
NoLine == [kind |-> "none"]
Empty == [c \in {} |-> NoItem]
NoFile == [exists |-> FALSE]
NoChoice == PyNone

ValidCode == <<"I","N","0","0","1">>
ValidDate == <<"2","5","/","0","7","/","2","0","2","5">>
OtherDate == <<"2","9","/","0","2","/","2","0","2","4">>
BadDate == <<"3","2","/","0","1","/","2","0","2","5">>

BaseItem ==
    [code |-> ValidCode, description |-> <<"o","l","d">>, date |-> ValidDate,
     income_amount |-> PyFloat(10000000), wht_amount |-> PyFloat(1000000)]

ConstructorArgs ==
    [f : {"IncomeItem"},
     code : {PyStr(ValidCode), PyStr(<<"I","N","1">>)},
     description : {PyStr(<<"P","a","y">>), PyStr(<<>>)},
     date : {PyStr(ValidDate), PyStr(BadDate)},
     income_amount : RawAmounts,
     wht_amount : RawAmounts]

UpdateArgs ==
    [f : {"update"},
     description : {PyNone, PyStr(<<"n","e","w">>), PyStr(<<>>)},
     date : {PyNone, PyStr(OtherDate), PyStr(BadDate)},
     income_amount : RawAmounts,
     wht_amount : RawAmounts]

PureArgs ==
    [f : {"validate_and_set_code"}, raw : RawCodes]
        \cup [f : {"validate_and_set_description"}, raw : RawDescriptions]
        \cup [f : {"validate_and_set_date"}, raw : RawDates]
        \cup [f : {"validate_and_set_income_amount"}, raw : RawAmounts]
        \cup [f : {"validate_and_set_wht_amount"}, raw : RawAmounts]
        \cup [f : {"calculate_checksum"}, l : ChecksumLines]
        \cup ConstructorArgs
        \cup UpdateArgs

InitPure ==
    /\ op = "init"
    /\ arg \in PureArgs
    /\ out = NoOut
    /\ ret = NoRet
    /\ income_items = Empty
    /\ item = NoItem
    /\ line = NoLine
    /\ src = NoItem
    /\ data_file = NoFile
    /\ csv_file = NoFile
    /\ pc = "none"
    /\ choice = NoChoice

ValidateCode ==
    /\ op = "init"
    /\ arg.f = "validate_and_set_code"
    /\ op' = "validate_and_set_code"
    /\ out' = validate_and_set_code(arg.raw)
    /\ UNCHANGED <<files, loop, arg, ret, income_items, item, line, src>>

ValidateDescription ==
    /\ op = "init"
    /\ arg.f = "validate_and_set_description"
    /\ op' = "validate_and_set_description"
    /\ out' = validate_and_set_description(arg.raw)
    /\ UNCHANGED <<files, loop, arg, ret, income_items, item, line, src>>

ValidateDate ==
    /\ op = "init"
    /\ arg.f = "validate_and_set_date"
    /\ op' = "validate_and_set_date"
    /\ out' = validate_and_set_date(arg.raw)
    /\ UNCHANGED <<files, loop, arg, ret, income_items, item, line, src>>

ValidateIncomeAmount ==
    /\ op = "init"
    /\ arg.f = "validate_and_set_income_amount"
    /\ op' = "validate_and_set_income_amount"
    /\ out' = validate_and_set_income_amount(arg.raw)
    /\ UNCHANGED <<files, loop, arg, ret, income_items, item, line, src>>

ValidateWhtAmount ==
    /\ op = "init"
    /\ arg.f = "validate_and_set_wht_amount"
    /\ op' = "validate_and_set_wht_amount"
    /\ out' = validate_and_set_wht_amount(arg.raw)
    /\ UNCHANGED <<files, loop, arg, ret, income_items, item, line, src>>

CalculateChecksum ==
    /\ op = "init"
    /\ arg.f = "calculate_checksum"
    /\ op' = "calculate_checksum"
    /\ out' = Ok(calculate_checksum(arg.l))
    /\ UNCHANGED <<files, loop, arg, ret, income_items, item, line, src>>

Construct ==
    /\ op = "init"
    /\ arg.f = "IncomeItem"
    /\ op' = "IncomeItem"
    /\ out' = IncomeItem(arg.code, arg.description, arg.date,
                      arg.income_amount, arg.wht_amount)
    /\ UNCHANGED <<files, loop, arg, ret, income_items, item, line, src>>

UpdateBase ==
    /\ op = "init"
    /\ arg.f = "update"
    /\ op' = "update"
    /\ out' = update(BaseItem, arg.description, arg.date,
                  arg.income_amount, arg.wht_amount)
    /\ UNCHANGED <<files, loop, arg, ret, income_items, item, line, src>>

NextPure ==
    \/ ValidateCode
    \/ ValidateDescription
    \/ ValidateDate
    \/ ValidateIncomeAmount
    \/ ValidateWhtAmount
    \/ CalculateChecksum
    \/ Construct
    \/ UpdateBase

SpecPure == InitPure /\ [][NextPure]_vars

----------------------------------------------------------------------------
(* Properties of the validators and of the checksum (SpecPure) *)

Min(S) == CHOOSE x \in S : \A y \in S : x <= y
Max(S) == CHOOSE x \in S : \A y \in S : x >= y

\* s without its surrounding whitespace: from the first to the last
\* character that is not whitespace
Trimmed(s) ==
    LET I == {i \in DOMAIN s : s[i] \notin Whitespace}
    IN  IF I = {} THEN <<>> ELSE SubSeq(s, Min(I), Max(I))

IsCodeForm(s) ==
    /\ Len(s) = 5
    /\ \A i \in {1, 2} : s[i] \in AsciiUpper
    /\ \A i \in {3, 4, 5} : s[i] \in AsciiDigit

\* C6: a code is accepted exactly when, trimmed and uppercased, it is two
\* ASCII letters A-Z followed by three ASCII digits; the stored code is that
\* uppercased string; a value that is not a string is rejected.
C6_CodeValidation ==
    op = "validate_and_set_code" =>
        IF arg.raw.t = "str"
        THEN /\ out.ok <=> IsCodeForm(upper(Trimmed(arg.raw.s)))
             /\ out.ok => out.val = upper(Trimmed(arg.raw.s))
        ELSE ~out.ok

IsDateShape(s) ==
    /\ Len(s) = 10
    /\ \A i \in {1, 2, 4, 5, 7, 8, 9, 10} : isdigit(s[i])
    /\ s[3] = "/" /\ s[6] = "/"

MonthLengths == <<31, 28, 31, 30, 31, 30, 31, 31, 30, 31, 30, 31>>

LeapYear(y) == (y % 4 = 0 /\ y % 100 # 0) \/ y % 400 = 0

IsCalendarDate(d, m, y) ==
    /\ m \in 1..12
    /\ d >= 1
    /\ d <= (IF m = 2 /\ LeapYear(y) THEN 29 ELSE MonthLengths[m])

DayOf(s) == DigitsValue(SubSeq(s, 1, 2))
MonthOf(s) == DigitsValue(SubSeq(s, 4, 5))
YearOf(s) == DigitsValue(SubSeq(s, 7, 10))

\* C7 as stated: a date string is accepted exactly when, trimmed, it has the
\* shape DD/MM/YYYY and its month is in 1..12 and its day within the month's
\* length, 29 February only in leap years.
C7_DateRealismAsStated ==
    (op = "validate_and_set_date" /\ arg.raw.t = "str") =>
        LET s == Trimmed(arg.raw.s)
        IN  out.ok <=>
                (IsDateShape(s) /\ IsCalendarDate(DayOf(s), MonthOf(s), YearOf(s)))

\* C7 (amended): a date string is accepted exactly when, trimmed, it has the
\* shape DD/MM/YYYY, its year is in 0001..9999, its month is in 1..12 and its
\* day within the month's length, 29 February only in leap years; the stored
\* date is the trimmed string.
C7_DateRealism ==
    op = "validate_and_set_date" =>
        IF arg.raw.t = "str"
        THEN LET s == Trimmed(arg.raw.s)
             IN  /\ out.ok <=>
                       /\ IsDateShape(s)
                       /\ YearOf(s) \in 1..9999
                       /\ IsCalendarDate(DayOf(s), MonthOf(s), YearOf(s))
                 /\ out.ok => out.val = s
        ELSE ~out.ok

\* 29/02/2024, surrounded by spaces, has been accepted
C7_Witness ==
    /\ op = "validate_and_set_date"
    /\ arg.raw = PyStr(<<" ">> \o OtherDate \o <<" ">>)
    /\ out = Ok(OtherDate)

Supplied(x) == x # PyNone

AmountFails(x, TooSmall(_)) == ~float(x).ok \/ TooSmall(float(x).val)

\* C8: construction and update fail for an income amount <= 0, for a WHT
\* amount < 0 and for an amount that is not a number; with the other fields
\* valid they succeed for every income amount > 0 with a WHT amount >= 0.
C8_AmountBounds ==
    /\ op = "IncomeItem" =>
        /\ AmountFails(arg.income_amount, LeZero) => ~out.ok
        /\ AmountFails(arg.wht_amount, LtZero) => ~out.ok
        /\ ( /\ validate_and_set_code(arg.code).ok
             /\ validate_and_set_description(arg.description).ok
             /\ validate_and_set_date(arg.date).ok
             /\ float(arg.income_amount).ok
             /\ GtZero(float(arg.income_amount).val)
             /\ float(arg.wht_amount).ok
             /\ GeZero(float(arg.wht_amount).val) ) => out.ok
    /\ op = "update" =>
        /\ (Supplied(arg.income_amount)
              /\ AmountFails(arg.income_amount, LeZero)) => ~out.ok
        /\ (Supplied(arg.wht_amount)
              /\ AmountFails(arg.wht_amount, LtZero)) => ~out.ok
        /\ ( /\ Supplied(arg.description)
                  => validate_and_set_description(arg.description).ok
             /\ Supplied(arg.date) => validate_and_set_date(arg.date).ok
             /\ float(arg.income_amount).ok
             /\ GtZero(float(arg.income_amount).val)
             /\ float(arg.wht_amount).ok
             /\ GeZero(float(arg.wht_amount).val) ) => out.ok

\* a construction with an income amount of 0 and a WHT amount of 0, the
\* other fields valid, has failed on the income amount
C8_Witness ==
    /\ op = "IncomeItem"
    /\ arg.income_amount = PyFloat(0)
    /\ arg.wht_amount = PyFloat(0)
    /\ out = Raise(<<"Income amount must be positive">>)

\* C9: a description is accepted exactly when its length after trimming is
\* between 1 and 20; the stored description is the trimmed string; a value
\* that is not a string is rejected.
C9_DescriptionBoundary ==
    op = "validate_and_set_description" =>
        IF arg.raw.t = "str"
        THEN LET s == Trimmed(arg.raw.s)
             IN  /\ out.ok <=> (1 <= Len(s) /\ Len(s) <= 20)
                 /\ out.ok => out.val = s
        ELSE ~out.ok

\* a description of 20 characters inside surrounding whitespace has been
\* accepted and stored trimmed
C9_Witness ==
    /\ op = "validate_and_set_description"
    /\ arg.raw.t = "str"
    /\ Len(arg.raw.s) > 20
    /\ out.ok
    /\ Len(out.val) = 20

AsciiCount(l) ==
    Cardinality({i \in DOMAIN l : l[i] \in AsciiUpper})
        + Cardinality({i \in DOMAIN l : l[i] \in AsciiDigit \cup {"."}})

\* C10: the checksum of a line is the number of its uppercase ASCII letters
\* plus the number of its characters that are an ASCII digit or '.'; it is
\* never negative, and it is 30 for the regression line.
C10_Checksum ==
    op = "calculate_checksum" =>
        /\ out.val = AsciiCount(arg.l)
        /\ out.val >= 0
        /\ arg.l = RegressionLine => out.val = 30

----------------------------------------------------------------------------
(* A standalone record: construction, update, rendering and decoding *)

Returned == [value |-> TRUE, err |-> <<>>]
Raised(r) == [value |-> FALSE, err |-> r.err]

Pay == <<"P","a","y">>
WithPipe == <<"a","|","b">>
WithComma == <<"a",",","b">>
WithFields == <<"x",",","0","1","/","0","1","/","2","0","2","4",",","5",",","6">>

ItemCodes == {PyStr(<<" ","i","n","0","0","1">>), PyStr(<<"I","N","1">>)}

ItemDescriptions ==
    {PyStr(Pay), PyStr(WithPipe), PyStr(WithComma), PyStr(WithFields),
     PyStr(<<>>)}

ItemDates == {PyStr(ValidDate), PyStr(BadDate)}

ItemIncomes ==
    {PyFloat(1), PyFloat(1005), PyFloat(12340), PyFloat(0), PyStr(<<"a","b","c">>)}

ItemWhts == {PyFloat(0), PyFloat(125), PyFloat(0 - 1)}

FileLine(c, d, dt, i, w) == join(<<c, d, dt, i, w>>, "|")

RawFileLines ==
    { FileLine(ValidCode, Pay, ValidDate, <<"1","2",".","3","4">>, <<"0",".","0","0">>),
      FileLine(<<" ","i","n","0","0","1">>, <<" ","P","a","y"," ">>, OtherDate,
               <<"1","2",".","3","4","9">>, <<"0">>) \o <<"\n">>,
      join(<<ValidCode, Pay, ValidDate, <<"1","2",".","3","4">>>>, "|"),
      FileLine(ValidCode, Pay, ValidDate, <<"1","2",".","3","4">>, <<"0">>)
          \o <<"|", "9">>,
      FileLine(ValidCode, Pay, ValidDate, <<"a","b","c">>, <<"0">>),
      FileLine(ValidCode, Pay, ValidDate, <<"n","a","n">>, <<"0">>),
      FileLine(ValidCode, Pay, BadDate, <<"1","2",".","3","4">>, <<"0">>),
      FileLine(ValidCode, Pay, ValidDate, <<"0">>, <<"0">>),
      FileLine(ValidCode, Pay, ValidDate, <<"1","0","0","0","0",".","0","0">>,
               <<"1","0","0","0",".","0","0">>),
      FileLine(ValidCode, Pay, ValidDate, <<"0",".","0","0","1">>, <<"0">>),
      <<>> }

CsvLine(c, d, dt, i, w) == join(<<c, d, dt, i, w>>, ",")

CsvPrefix ==
    CsvLine(ValidCode, Pay, ValidDate, <<"1","2",".","3","4">>, <<"0",".","0","0">>)

RawCsvLines ==
    { CsvPrefix,
      CsvPrefix \o <<",">> \o str(calculate_checksum(CsvPrefix)),
      CsvPrefix \o <<",", "9", "9", "9">>,
      CsvPrefix \o <<",", "x", ",", "y">>,
      join(<<ValidCode, Pay, ValidDate, <<"1","2",".","3","4">>>>, ","),
      CsvLine(ValidCode, Pay, ValidDate, <<"a","b","c">>, <<"0">>),
      CsvLine(ValidCode, Pay, BadDate, <<"1","2",".","3","4">>, <<"0">>),
      CsvLine(ValidCode, Pay, BadDate, <<"1","2",".","3","4">>, <<"0">>)
          \o <<",", "1", "9">>,
      CsvLine(<<"i","n","0","0","1">>, Pay, OtherDate, <<"0",".","0","0","4">>,
              <<"0">>) }

InitItem ==
    /\ op = "init"
    /\ ret = NoRet
    /\ item = NoItem
    /\ line = NoLine
    /\ src = NoItem
    /\ income_items = Empty
    /\ arg = NoArg
    /\ out = NoOut
    /\ data_file = NoFile
    /\ csv_file = NoFile
    /\ pc = "none"
    /\ choice = NoChoice

\* IncomeItem(code, description, date, income_amount, wht_amount)
New ==
    \E code \in ItemCodes, description \in ItemDescriptions,
       date \in ItemDates, income_amount \in ItemIncomes,
       wht_amount \in ItemWhts :
        \E r \in {IncomeItem(code, description, date, income_amount,
                  wht_amount)} :
            /\ op' = "IncomeItem"
            /\ item' = IF r.ok THEN r.val ELSE NoItem
            /\ ret' = IF r.ok THEN Returned ELSE Raised(r)
            /\ line' = NoLine
            /\ src' = NoItem
            /\ UNCHANGED <<files, loop, income_items, arg, out>>

\* item.update(description, date, income_amount, wht_amount)
Update ==
    /\ item # NoItem
    /\ \E description \in {PyNone, PyStr(<<"n","e","w">>), PyStr(<<>>)},
          date \in {PyNone, PyStr(OtherDate), PyStr(BadDate)},
          income_amount \in {PyNone} \cup ItemIncomes,
          wht_amount \in {PyNone} \cup ItemWhts :
        \E r \in {update(item, description, date, income_amount, wht_amount)} :
            /\ op' = "update"
            /\ item' = r.self
            /\ ret' = IF r.ok THEN Returned ELSE Raised(r)
            /\ line' = NoLine
            /\ src' = NoItem
            /\ UNCHANGED <<files, loop, income_items, arg, out>>

\* item.to_file_line()
ToFileLine ==
    /\ item # NoItem
    /\ op' = "to_file_line"
    /\ line' = [kind |-> "file", text |-> to_file_line(item)]
    /\ src' = item
    /\ ret' = Returned
    /\ UNCHANGED <<files, loop, item, income_items, arg, out>>

\* item.to_csv_line()
ToCsvLine ==
    /\ item # NoItem
    /\ op' = "to_csv_line"
    /\ line' = [kind |-> "csv", text |-> to_csv_line(item)]
    /\ src' = item
    /\ ret' = Returned
    /\ UNCHANGED <<files, loop, item, income_items, arg, out>>

\* IncomeItem.from_file_line(l), of a line from outside or of the line just
\* rendered; the record it returns becomes the item
FromFileLine ==
    \E l \in RawFileLines \cup
             (IF line.kind = "file" THEN {line.text} ELSE {}) :
        LET rendered == line.kind = "file" /\ l = line.text
        IN  \E r \in {from_file_line(l)} :
            /\ op' = "from_file_line"
            /\ item' = IF r.ok THEN r.val ELSE NoItem
            /\ ret' = IF r.ok THEN Returned ELSE Raised(r)
            /\ line' = IF rendered THEN line ELSE NoLine
            /\ src' = IF rendered THEN src ELSE NoItem
            /\ UNCHANGED <<files, loop, income_items, arg, out>>

\* IncomeItem.from_csv_line(l)
FromCsvLine ==
    \E l \in RawCsvLines \cup
             (IF line.kind = "csv" THEN {line.text} ELSE {}) :
        LET rendered == line.kind = "csv" /\ l = line.text
        IN  \E r \in {from_csv_line(l)} :
            /\ op' = "from_csv_line"
            /\ item' = IF r.ok THEN r.val ELSE NoItem
            /\ ret' = IF r.ok THEN Returned ELSE Raised(r)
            /\ line' = IF rendered THEN line ELSE NoLine
            /\ src' = IF rendered THEN src ELSE NoItem
            /\ UNCHANGED <<files, loop, income_items, arg, out>>

NextItem ==
    \/ New
    \/ Update
    \/ ToFileLine
    \/ ToCsvLine
    \/ FromFileLine
    \/ FromCsvLine

SpecItem == InitItem /\ [][NextItem]_vars

----------------------------------------------------------------------------
(* Properties of the standalone record (SpecItem) *)

\* every stored field passes its own validator unchanged; the amounts are
\* within their bounds and stable under rounding
RecordValid(r) ==
    /\ validate_and_set_code(PyStr(r.code)) = Ok(r.code)
    /\ r.code = upper(r.code)
    /\ validate_and_set_description(PyStr(r.description)) = Ok(r.description)
    /\ r.description = Trimmed(r.description)
    /\ Len(r.description) \in 1..20
    /\ validate_and_set_date(PyStr(r.date)) = Ok(r.date)
    /\ validate_and_set_income_amount(r.income_amount) = Ok(r.income_amount)
    /\ GtZero(r.income_amount)
    /\ round2(r.income_amount) = r.income_amount
    /\ validate_and_set_wht_amount(r.wht_amount) = Ok(r.wht_amount)
    /\ GeZero(r.wht_amount)
    /\ round2(r.wht_amount) = r.wht_amount

\* C2: every live record has all five stored fields passing their validator
\* unchanged; the stored income amount is > 0, the stored WHT amount >= 0,
\* and rounding either again changes nothing.
C2_RecordInvariant == item # NoItem => RecordValid(item)

\* field-for-field equality, as == compares the values
SameFields(r, s) ==
    /\ r.code = s.code
    /\ r.description = s.description
    /\ r.date = s.date
    /\ FloatEq(r.income_amount, s.income_amount)
    /\ FloatEq(r.wht_amount, s.wht_amount)

\* C3: decoding the storage line rendered from a valid record succeeds and
\* gives back that record's five fields.
C3_StorageRoundTrip ==
    (op = "from_file_line" /\ line.kind = "file" /\ RecordValid(src)) =>
        (ret.value /\ item # NoItem /\ SameFields(item, src))

\* C4: decoding the report line rendered from a valid record succeeds and
\* gives back that record's five fields.
C4_ReportRoundTrip ==
    (op = "from_csv_line" /\ line.kind = "csv" /\ RecordValid(src)) =>
        (ret.value /\ item # NoItem /\ SameFields(item, src))

\* code,description,date,income,wht of a record, the amounts with two
\* decimals
Rendering(r) ==
    r.code \o <<",">> \o r.description \o <<",">> \o r.date \o <<",">>
        \o Format2f(r.income_amount) \o <<",">> \o Format2f(r.wht_amount)

LastPart(s, sep) == split(s, sep)[Len(split(s, sep))]

\* C11: the report line of a record is the comma-joined rendering of its
\* current fields followed by one more field, and that last field is the
\* checksum of the rendering alone (the checksum's own digits not counted);
\* this holds of the fields as they are now, after updates too.
C11_ChecksumBinding ==
    op = "to_csv_line" =>
        /\ line.text = Rendering(item) \o <<",">> \o LastPart(line.text, ",")
        /\ LastPart(line.text, ",") = str(calculate_checksum(Rendering(item)))

\* the report line of a valid record whose description an update has set
C11_Witness ==
    /\ op = "to_csv_line"
    /\ RecordValid(item)
    /\ item.description = <<"n","e","w">>
    /\ line.text = <<"I","N","0","0","1",",","n","e","w",",">> \o ValidDate
                     \o <<",","1","2",".","3","4",",","0",".","1","2",",","2","2">>

\* digits '.' two digits
TwoDecimals(s) ==
    /\ Len(split(s, ".")) = 2
    /\ split(s, ".")[1] # <<>>
    /\ \A i \in DOMAIN split(s, ".")[1] : split(s, ".")[1][i] \in AsciiDigit
    /\ Len(split(s, ".")[2]) = 2
    /\ \A i \in 1..2 : split(s, ".")[2][i] \in AsciiDigit

\* C12: the report line of a valid record splits on ',' into exactly 6
\* parts: code, description, date, the two amounts with exactly two
\* fractional digits, and a last part of decimal digits only.
C12_ReportLineShape ==
    (op = "to_csv_line" /\ RecordValid(item)) =>
        /\ Len(split(line.text, ",")) = 6
        /\ split(line.text, ",")[1] = item.code
        /\ split(line.text, ",")[2] = item.description
        /\ split(line.text, ",")[3] = item.date
        /\ TwoDecimals(split(line.text, ",")[4])
        /\ TwoDecimals(split(line.text, ",")[5])
        /\ split(line.text, ",")[6] # <<>>
        /\ \A i \in DOMAIN split(line.text, ",")[6] :
               split(line.text, ",")[6][i] \in AsciiDigit

\* the lines FromFileLine and FromCsvLine draw from in the current state
FileLinesNow ==
    RawFileLines \cup (IF line.kind = "file" THEN {line.text} ELSE {})
CsvLinesNow ==
    RawCsvLines \cup (IF line.kind = "csv" THEN {line.text} ELSE {})

\* the step is the call from_file_line(l)
IsFromFileLineCall(l) ==
    /\ op' = "from_file_line"
    /\ \E r \in {from_file_line(l)} :
        /\ item' = IF r.ok THEN r.val ELSE NoItem
        /\ ret' = IF r.ok THEN Returned ELSE Raised(r)

\* each of the five parts passes its field validator, the income part being
\* a number > 0 and the WHT part a number >= 0
PartsValid(parts) ==
    /\ validate_and_set_code(PyStr(parts[1])).ok
    /\ validate_and_set_description(PyStr(parts[2])).ok
    /\ validate_and_set_date(PyStr(parts[3])).ok
    /\ validate_and_set_income_amount(PyStr(parts[4])).ok
    /\ GtZero(float(PyStr(parts[4])).val)
    /\ validate_and_set_wht_amount(PyStr(parts[5])).ok
    /\ GeZero(float(PyStr(parts[5])).val)

\* the record of the five parts, each as its validator normalizes it
Normalized(parts) ==
    [code |-> validate_and_set_code(PyStr(parts[1])).val,
     description |-> validate_and_set_description(PyStr(parts[2])).val,
     date |-> validate_and_set_date(PyStr(parts[3])).val,
     income_amount |-> validate_and_set_income_amount(PyStr(parts[4])).val,
     wht_amount |-> validate_and_set_wht_amount(PyStr(parts[5])).val]

\* C13: from_file_line succeeds exactly when the line splits on '|' into 5
\* parts that each pass their validator (income > 0, WHT >= 0); on success
\* the record holds the normalized parts; otherwise it raises an error and
\* returns no record.
C13_StorageLineDecoding ==
    [][\A l \in FileLinesNow :
        IsFromFileLineCall(l) =>
            \A parts \in {split(l, "|")} :
                /\ ret'.value <=> (Len(parts) = 5 /\ PartsValid(parts))
                /\ ret'.value => item' = Normalized(parts)
                /\ ~ret'.value => (item' = NoItem /\ ret'.err # <<>>)]_vars

\* the step is the call from_csv_line(l)
IsFromCsvLineCall(l) ==
    /\ op' = "from_csv_line"
    /\ \E r \in {from_csv_line(l)} :
        /\ item' = IF r.ok THEN r.val ELSE NoItem
        /\ ret' = IF r.ok THEN Returned ELSE Raised(r)

\* two lines of at least five comma-separated fields with the same first
\* five fields
SameFirstFive(l, m) ==
    /\ Len(split(l, ",")) >= 5
    /\ Len(split(m, ",")) >= 5
    /\ SubSeq(split(l, ","), 1, 5) = SubSeq(split(m, ","), 1, 5)

\* C14: from_csv_line refuses a line of fewer than 5 comma-separated fields
\* and accepts one of at least 5 whose first five are valid; a line that
\* agrees with the decoded one on the first five fields (checksum absent,
\* right or wrong, further fields or none) decodes to the same outcome and
\* the same record.
C14_ChecksumIgnored ==
    [][\A l \in CsvLinesNow :
        IsFromCsvLineCall(l) =>
            \A parts \in {split(l, ",")} :
                /\ Len(parts) < 5 => ~ret'.value
                /\ (Len(parts) >= 5 /\ PartsValid(parts)) => ret'.value
                /\ \A m \in CsvLinesNow :
                      SameFirstFive(l, m) =>
                        \E r \in {from_csv_line(m)} :
                            /\ r.ok = ret'.value
                            /\ r.ok => r.val = item'
                            /\ ~r.ok => r.err = ret'.err]_vars

\* a report line that was not rendered from the record at hand has been
\* decoded to the record IN001, Pay, 25/07/2025, 12.34, 0.0
C14_Witness ==
    /\ op = "from_csv_line"
    /\ ret = Returned
    /\ line = NoLine
    /\ item = [code |-> ValidCode, description |-> Pay, date |-> ValidDate,
               income_amount |-> PyFloat(12340), wht_amount |-> PyFloat(0)]

----------------------------------------------------------------------------
(* IncomeManager: the collection and its operations.  An operation maps    *)
(* the collection and its arguments to the collection it leaves behind,    *)
(* the value it returns and the message it prints.                         *)

Result(items, value, msg) == [items |-> items, value |-> value, msg |-> msg]

\* self.income_items[code] = record
Put(items, code, record) ==
    [c \in DOMAIN items \cup {code} |-> IF c = code THEN record ELSE items[c]]

\* del self.income_items[code]
Del(items, code) == [c \in DOMAIN items \ {code} |-> items[c]]

\* variant: the pre-check takes the code as typed, without strip().upper()
validate_income_code_AsTyped(code) ==
    IF code.t # "str" THEN FALSE ELSE MatchCode(code.s)

\* validate_income_code: bool(re.match(pattern, code.strip().upper()))
validate_income_code(code) ==
    IF code.t # "str" THEN FALSE ELSE MatchCode(upper(strip(code.s)))

\* validate_date: the pattern, then int() of the three parts and
\* datetime(year, month, day); a ValueError is False
validate_date(date_str) ==
    IF date_str.t # "str" THEN FALSE
    ELSE LET Checked(d) ==
                 IF ~MatchDate(d) THEN FALSE
                 ELSE LET Parsed(p) == datetime(int(p[3]), int(p[2]), int(p[1]))
                      IN  Parsed(split(d, "/"))
         IN  Checked(strip(date_str.s))

code_exists(items, code) == upper(code) \in DOMAIN items

\* variant: no check for a duplicate code, the new record replaces the old
add_income_Overwrites(items, code, description, date, income_amount, wht_amount) ==
    LET Add(r) ==
            IF ~r.ok
            THEN Result(items, FALSE, <<"Validation error: ">> \o r.err)
            ELSE Result(Put(items, r.val.code, r.val), TRUE,
                        <<"added successfully.">>)
    IN  Add(IncomeItem(code, description, date, income_amount, wht_amount))

add_income(items, code, description, date, income_amount, wht_amount) ==
    LET Add(r) ==
            IF ~r.ok
            THEN Result(items, FALSE, <<"Validation error: ">> \o r.err)
            ELSE IF code_exists(items, r.val.code)
            THEN Result(items, FALSE, <<"Error: Income code already exists!">>)
            ELSE Result(Put(items, r.val.code, r.val), TRUE,
                        <<"added successfully.">>)
    IN  Add(IncomeItem(code, description, date, income_amount, wht_amount))

\* variant: the code is looked up as it is given
delete_income_CaseSensitive(items, code) ==
    IF code \in DOMAIN items
    THEN Result(Del(items, code), TRUE, <<"deleted successfully.">>)
    ELSE Result(items, FALSE, <<"not found.">>)

delete_income(items, code) ==
    IF upper(code) \in DOMAIN items
    THEN Result(Del(items, upper(code)), TRUE, <<"deleted successfully.">>)
    ELSE Result(items, FALSE, <<"not found.">>)

\* variant: update_income updates a copy and leaves the stored record alone
update_income_OnCopy(items, code, description, date, income_amount, wht_amount) ==
    IF upper(code) \notin DOMAIN items
    THEN Result(items, FALSE, <<"not found.">>)
    ELSE LET Left(r) ==
                 Result(items, r.ok,
                        IF r.ok THEN <<"updated successfully.">>
                        ELSE <<"Validation error: ">> \o r.err)
         IN  Left(update(items[upper(code)], description, date,
                         income_amount, wht_amount))

\* the record is updated in place, so whatever update assigned before it
\* raised stays in the collection
update_income(items, code, description, date, income_amount, wht_amount) ==
    IF upper(code) \notin DOMAIN items
    THEN Result(items, FALSE, <<"not found.">>)
    ELSE LET Left(r) ==
                 Result(Put(items, upper(code), r.self), r.ok,
                        IF r.ok THEN <<"updated successfully.">>
                        ELSE <<"Validation error: ">> \o r.err)
         IN  Left(update(items[upper(code)], description, date,
                         income_amount, wht_amount))

\* search_income: the record's to_dict, or None
search_income(items, code) ==
    IF upper(code) \in DOMAIN items THEN to_dict(items[upper(code)])
    ELSE PyNone

\* x + y of two floats
FloatAdd(x, y) ==
    IF x.t = "float" /\ y.t = "float" THEN PyFloat(x.m + y.m)
    ELSE IF x.t = "nan" \/ y.t = "nan" THEN PyNaN
    ELSE IF x.t = "float" THEN y
    ELSE IF y.t = "float" \/ x.t = y.t THEN x
    ELSE PyNaN

\* sum(...) over the values of a dict, given as a function of its keys
RECURSIVE sum(_)
sum(f) ==
    IF DOMAIN f = {} THEN PyFloat(0)
    ELSE LET c == CHOOSE k \in DOMAIN f : TRUE
         IN  FloatAdd(f[c], sum([k \in DOMAIN f \ {c} |-> f[k]]))

calculate_total_income(items) ==
    sum([c \in DOMAIN items |-> items[c].income_amount])

calculate_total_wht(items) ==
    sum([c \in DOMAIN items |-> items[c].wht_amount])

\* variant: the WHT amounts are not taken off
calculate_total_net_OfIncome(items) ==
    sum([c \in DOMAIN items |-> items[c].income_amount])

calculate_total_net(items) ==
    sum([c \in DOMAIN items |-> get_net_amount(items[c])])

\* round(total / total_items if total_items > 0 else 0, 2): the quotient of
\* m thousandths by n, rounded to the nearest hundredth.  A quotient halfway
\* between two hundredths is a whole number of thousandths; it is rounded as
\* RoundMills rounds that number, which follows the stored double only for
\* the thousandths RoundMills knows (no collection of the model has such an
\* average).
Average(total, n) ==
    IF n = 0 THEN PyFloat(0)
    ELSE IF total.t # "float" THEN total
    ELSE IF total.m % n = 0 THEN PyFloat(RoundMills(total.m \div n))
    ELSE LET h == total.m \div (10 * n)
             r == total.m % (10 * n)
         IN  PyFloat(10 * (IF 2 * r > 10 * n THEN h + 1 ELSE h))

get_statistics(items) ==
    [total_items |-> Cardinality(DOMAIN items),
     total_income |-> round2(calculate_total_income(items)),
     total_wht |-> round2(calculate_total_wht(items)),
     total_net |-> round2(calculate_total_net(items)),
     average_income |->
         Average(calculate_total_income(items), Cardinality(DOMAIN items)),
     average_wht |->
         Average(calculate_total_wht(items), Cardinality(DOMAIN items))]

clear_all_data(items) == Result(Empty, TRUE, <<"All income data cleared.">>)

New1 == <<"n","e","w">>
OtherCode == <<"S","A","0","0","2">>

MgrCodes ==
    {PyStr(ValidCode), PyStr(<<" ","i","n","0","0","1">>), PyStr(OtherCode),
     PyStr(<<"I","N","1">>)}
MgrDescriptions == {PyStr(Pay), PyStr(<<>>)}
MgrDates == {PyStr(ValidDate), PyStr(BadDate)}
MgrIncomes == {PyFloat(12340), PyFloat(0)}
MgrWhts == {PyFloat(0), PyFloat(0 - 1)}

\* codes as the callers of delete_income and update_income pass them
MgrKeys == {<<"i","n","0","0","1">>, OtherCode, <<"X","X","9","9","9">>}
UpdKeys == {<<"i","n","0","0","1">>, <<"X","X","9","9","9">>}

UpdDescriptions == {PyNone, PyStr(New1), PyStr(<<>>)}
UpdDates == {PyNone, PyStr(OtherDate), PyStr(BadDate)}
UpdIncomes == {PyNone, PyFloat(1005), PyFloat(0)}
UpdWhts == {PyNone, PyFloat(125), PyFloat(0 - 1)}

Init ==
    /\ op = "init"
    /\ ret = NoRet
    /\ income_items = Empty
    /\ item = NoItem
    /\ line = NoLine
    /\ src = NoItem
    /\ arg = NoArg
    /\ out = NoOut
    /\ data_file = NoFile
    /\ csv_file = NoFile
    /\ pc = "none"
    /\ choice = NoChoice

AddIncome ==
    \E code \in MgrCodes, description \in MgrDescriptions, date \in MgrDates,
       income_amount \in MgrIncomes, wht_amount \in MgrWhts :
        \E r \in {add_income(income_items, code, description, date,
                  income_amount, wht_amount)} :
            /\ op' = "add_income"
            /\ income_items' = r.items
            /\ ret' = [value |-> r.value, err |-> r.msg]
            /\ UNCHANGED <<files, loop, item, line, src, arg, out>>

DeleteIncome ==
    \E code \in MgrKeys :
        \E r \in {delete_income(income_items, code)} :
            /\ op' = "delete_income"
            /\ income_items' = r.items
            /\ ret' = [value |-> r.value, err |-> r.msg]
            /\ UNCHANGED <<files, loop, item, line, src, arg, out>>

UpdateIncome ==
    \E code \in UpdKeys, description \in UpdDescriptions, date \in UpdDates,
       income_amount \in UpdIncomes, wht_amount \in UpdWhts :
        \E r \in {update_income(income_items, code, description, date,
                  income_amount, wht_amount)} :
            /\ op' = "update_income"
            /\ income_items' = r.items
            /\ ret' = [value |-> r.value, err |-> r.msg]
            /\ UNCHANGED <<files, loop, item, line, src, arg, out>>

ClearAllData ==
    LET r == clear_all_data(income_items)
    IN  /\ op' = "clear_all_data"
        /\ income_items' = r.items
        /\ ret' = [value |-> r.value, err |-> r.msg]
        /\ UNCHANGED <<files, loop, item, line, src, arg, out>>

Next ==
    \/ AddIncome
    \/ DeleteIncome
    \/ UpdateIncome
    \/ ClearAllData

Spec == Init /\ [][Next]_vars

----------------------------------------------------------------------------
(* Properties of the manager (Spec) *)

\* the step is the call update_income(code, description, date, income_amount,
\* wht_amount)
IsUpdateIncomeCall(code, description, date, income_amount, wht_amount) ==
    LET Call(r) ==
            /\ op' = "update_income"
            /\ income_items' = r.items
            /\ ret' = [value |-> r.value, err |-> r.msg]
    IN  Call(update_income(income_items, code, description, date,
                           income_amount, wht_amount))

\* a supplied value fails its validator
SomeInvalid(description, date, income_amount, wht_amount) ==
    \/ Supplied(description) /\ ~validate_and_set_description(description).ok
    \/ Supplied(date) /\ ~validate_and_set_date(date).ok
    \/ Supplied(income_amount)
         /\ ~validate_and_set_income_amount(income_amount).ok
    \/ Supplied(wht_amount) /\ ~validate_and_set_wht_amount(wht_amount).ok

\* C1: an update of an existing record in which a supplied value fails its
\* validator fails and leaves description, date, income_amount and
\* wht_amount of every record as they were before the call.
C1_FailedUpdateKeepsFields ==
    [][\A code \in UpdKeys, description \in UpdDescriptions,
          date \in UpdDates, income_amount \in UpdIncomes,
          wht_amount \in UpdWhts :
            ( /\ IsUpdateIncomeCall(code, description, date,
                                    income_amount, wht_amount)
              /\ upper(code) \in DOMAIN income_items
              /\ SomeInvalid(description, date, income_amount, wht_amount) )
            => (ret'.value = FALSE /\ income_items' = income_items)]_vars

\* the step is the call add_income(code, description, date, income_amount,
\* wht_amount)
IsAddIncomeCall(code, description, date, income_amount, wht_amount) ==
    LET Call(r) ==
            /\ op' = "add_income"
            /\ income_items' = r.items
            /\ ret' = [value |-> r.value, err |-> r.msg]
    IN  Call(add_income(income_items, code, description, date,
                        income_amount, wht_amount))

\* the results of the five validators in the order code, description, date,
\* income_amount, wht_amount
Validations(code, description, date, income_amount, wht_amount) ==
    << validate_and_set_code(code),
       validate_and_set_description(description),
       validate_and_set_date(date),
       validate_and_set_income_amount(income_amount),
       validate_and_set_wht_amount(wht_amount) >>

Failing(vs) == {k \in DOMAIN vs : ~vs[k].ok}

\* C5: when a raw field fails its validator the constructor raises the error
\* of the first failing field in the order code, description, date,
\* income_amount, wht_amount and returns no record; add_income then returns
\* False, reports that error and leaves the collection as it was.
C5_ConstructionAllOrNothing ==
    [][\A code \in MgrCodes, description \in MgrDescriptions,
          date \in MgrDates, income_amount \in MgrIncomes,
          wht_amount \in MgrWhts :
            IsAddIncomeCall(code, description, date,
                            income_amount, wht_amount)
            => \A vs \in {Validations(code, description, date,
                                     income_amount, wht_amount)} :
                Failing(vs) # {}
                => /\ IncomeItem(code, description, date,
                                 income_amount, wht_amount)
                        = Raise(vs[Min(Failing(vs))].err)
                   /\ ret'.value = FALSE
                   /\ ret'.err = <<"Validation error: ">>
                                     \o vs[Min(Failing(vs))].err
                   /\ income_items' = income_items]_vars

\* add_income with a valid code and an empty description has been refused
\* while the collection holds a record
C5_Witness ==
    /\ op = "add_income"
    /\ ret = [value |-> FALSE,
              err |-> <<"Validation error: ", "Description cannot be empty">>]
    /\ income_items # Empty

\* C15: an update, successful or failed, through update_income leaves the
\* code of every record of the collection as it was (update_income applies
\* the record's own update).
C15_CodeImmutable ==
    [][op' = "update_income" =>
        \A c \in DOMAIN income_items :
            /\ c \in DOMAIN income_items'
            /\ income_items'[c].code = income_items[c].code]_vars

\* the same of an update called on a standalone record
C15_CodeImmutableDirect ==
    [][op' = "update" => item'.code = item.code]_vars

\* update_income has changed the description of IN001 and the record still
\* carries its code
C15_Witness ==
    /\ op = "update_income"
    /\ ret.value
    /\ ValidCode \in DOMAIN income_items
    /\ income_items[ValidCode].description = New1
    /\ income_items[ValidCode].code = ValidCode

\* C16: add_income with a code that, trimmed and uppercased, is the code of
\* a record of the collection returns False and leaves the collection, that
\* record's fields and the number of records as they were.
C16_DuplicateRefused ==
    [][\A code \in MgrCodes, description \in MgrDescriptions,
          date \in MgrDates, income_amount \in MgrIncomes,
          wht_amount \in MgrWhts :
            ( /\ IsAddIncomeCall(code, description, date,
                                 income_amount, wht_amount)
              /\ upper(Trimmed(code.s)) \in DOMAIN income_items )
            => /\ ret'.value = FALSE
               /\ income_items' = income_items
               /\ Cardinality(DOMAIN income_items')
                    = Cardinality(DOMAIN income_items)]_vars

\* add_income has been refused for a code the collection holds
C16_Witness ==
    /\ op = "add_income"
    /\ ret = [value |-> FALSE,
              err |-> <<"Error: Income code already exists!">>]
    /\ ValidCode \in DOMAIN income_items

\* C17: whenever add_income(c, ...) returns True, code_exists(c), called with
\* the same raw string c, is True in the state the call leaves.
C17_AddThenExists ==
    [][\A code \in MgrCodes, description \in MgrDescriptions,
          date \in MgrDates, income_amount \in MgrIncomes,
          wht_amount \in MgrWhts :
            ( /\ IsAddIncomeCall(code, description, date,
                                 income_amount, wht_amount)
              /\ ret'.value = TRUE )
            => code_exists(income_items', code.s)]_vars

\* the step is the call delete_income(code)
IsDeleteIncomeCall(code) ==
    /\ op' = "delete_income"
    /\ \E r \in {delete_income(income_items, code)} :
        /\ income_items' = r.items
        /\ ret' = [value |-> r.value, err |-> r.msg]

\* C18: delete_income of a code the collection holds returns True, after it
\* code_exists of that code is False and every other record is as it was;
\* delete_income of a code the collection does not hold returns False and
\* leaves the collection as it was.
C18_Delete ==
    [][\A code \in MgrKeys :
        IsDeleteIncomeCall(code) =>
            IF code_exists(income_items, code)
            THEN /\ ret'.value = TRUE
                 /\ ~code_exists(income_items', code)
                 /\ DOMAIN income_items' = DOMAIN income_items \ {upper(code)}
                 /\ \A c \in DOMAIN income_items' :
                        income_items'[c] = income_items[c]
            ELSE /\ ret'.value = FALSE
                 /\ income_items' = income_items]_vars

\* IN001 has been deleted and SA002 is still in the collection
C18_Witness ==
    /\ op = "delete_income"
    /\ ret.value
    /\ ValidCode \notin DOMAIN income_items
    /\ OtherCode \in DOMAIN income_items

\* the value a field holds after a valid update: the normalized new value
\* when one is supplied, the old value otherwise
NewValue(supplied, validated, old) ==
    IF Supplied(supplied) THEN validated.val ELSE old

\* the arguments <<description, date, income_amount, wht_amount>> of which
\* every supplied value is valid
ValidUpdates ==
    {a \in UpdDescriptions \X UpdDates \X UpdIncomes \X UpdWhts :
        ~SomeInvalid(a[1], a[2], a[3], a[4])}

\* C19: update_income of a code the collection holds, every supplied value
\* valid, returns True, and search_income of that code then returns the
\* same code with the normalized new description, date, income_amount and
\* wht_amount, every other record as it was; update_income of a code the
\* collection does not hold returns False and changes nothing.
C19_ManagerUpdate ==
    [][op' = "update_income" =>
        \A code \in UpdKeys :
            IF upper(code) \notin DOMAIN income_items
            THEN \A description \in UpdDescriptions, date \in UpdDates,
                    income_amount \in UpdIncomes, wht_amount \in UpdWhts :
                     IsUpdateIncomeCall(code, description, date,
                                        income_amount, wht_amount)
                     => (ret'.value = FALSE /\ income_items' = income_items)
            ELSE \A a \in ValidUpdates :
                     IsUpdateIncomeCall(code, a[1], a[2], a[3], a[4])
                     => \E old \in {income_items[upper(code)]},
                           found \in {search_income(income_items', code)} :
                          /\ ret'.value = TRUE
                          /\ found # PyNone
                          /\ found.code = old.code
                          /\ found.description =
                               NewValue(a[1],
                                   validate_and_set_description(a[1]),
                                   old.description)
                          /\ found.date =
                               NewValue(a[2], validate_and_set_date(a[2]),
                                        old.date)
                          /\ found.income_amount =
                               NewValue(a[3],
                                   validate_and_set_income_amount(a[3]),
                                   old.income_amount)
                          /\ found.wht_amount =
                               NewValue(a[4],
                                   validate_and_set_wht_amount(a[4]),
                                   old.wht_amount)
                          /\ DOMAIN income_items' = DOMAIN income_items
                          /\ \A c \in DOMAIN income_items \ {upper(code)} :
                                 income_items'[c] = income_items[c]]_vars

\* update_income has given IN001 a new description, date, income amount
\* (1.005 stored as 1.0) and WHT amount (0.125 stored as 0.12) while SA002
\* is in the collection
C19_Witness ==
    /\ op = "update_income"
    /\ ret.value
    /\ OtherCode \in DOMAIN income_items
    /\ ValidCode \in DOMAIN income_items
    /\ income_items[ValidCode] =
         [code |-> ValidCode, description |-> New1, date |-> OtherDate,
          income_amount |-> PyFloat(1000), wht_amount |-> PyFloat(120)]

\* the sum of the thousandths g[c] over the keys c in S
RECURSIVE MillsOver(_, _)
MillsOver(g, S) ==
    IF S = {} THEN 0
    ELSE LET c == CHOOSE k \in S : TRUE
         IN  g[c] + MillsOver(g, S \ {c})

\* C20: in every state of the collection get_statistics reports total_items
\* as the number of records, total_income and total_wht as the sums of the
\* stored income and WHT amounts, and total_net as total_income - total_wht.
C20_StatisticsConsistent ==
    \E s \in {get_statistics(income_items)} :
        /\ s.total_items = Cardinality(DOMAIN income_items)
        /\ s.total_income =
             PyFloat(MillsOver([c \in DOMAIN income_items |->
                                  income_items[c].income_amount.m],
                               DOMAIN income_items))
        /\ s.total_wht =
             PyFloat(MillsOver([c \in DOMAIN income_items |->
                                  income_items[c].wht_amount.m],
                               DOMAIN income_items))
        /\ s.total_net = PyFloat(s.total_income.m - s.total_wht.m)

\* two records, one of them with a WHT amount: total income 13.34, total
\* WHT 0.12, total net 13.22
C20_Witness ==
    /\ DOMAIN income_items = {ValidCode, OtherCode}
    /\ get_statistics(income_items) =
         [total_items |-> 2, total_income |-> PyFloat(13340),
          total_wht |-> PyFloat(120), total_net |-> PyFloat(13220),
          average_income |-> PyFloat(6670), average_wht |-> PyFloat(60)]

----------------------------------------------------------------------------
(* The record: net amount, equality *)

\* C21: for every live record get_net_amount(), and the net_amount entry of
\* to_dict(), is the stored income_amount minus the stored wht_amount, a
\* whole number of hundredths, computed from the fields as they are now;
\* where an amount is not a finite number the net amount is not one either.
C21_NetAmount ==
    item # NoItem =>
        /\ to_dict(item).net_amount = get_net_amount(item)
        /\ IF item.income_amount.t = "float" /\ item.wht_amount.t = "float"
           THEN /\ get_net_amount(item) =
                     PyFloat(item.income_amount.m - item.wht_amount.m)
                /\ get_net_amount(item).m % 10 = 0
           ELSE get_net_amount(item).t # "float"

\* income 10000.00 and WHT 1000.00 give the net amount 9000.00
C21_Witness ==
    /\ item # NoItem
    /\ item.income_amount = PyFloat(10000000)
    /\ item.wht_amount = PyFloat(1000000)
    /\ get_net_amount(item) = PyFloat(9000000)
    /\ to_dict(item).net_amount = PyFloat(9000000)

----------------------------------------------------------------------------
(* The pre-checks of the manager against the validators of the record *)

\* C30: for every input validate_income_code returns True exactly when
\* validate_and_set_code accepts it, and validate_date returns True exactly
\* when validate_and_set_date accepts it.
C30_ValidatorAgreement ==
    /\ op = "validate_and_set_code" =>
           (validate_income_code(arg.raw) <=> out.ok)
    /\ op = "validate_and_set_date" =>
           (validate_date(arg.raw) <=> out.ok)

\* ' in001' and a newline passes both the pre-check and the validator,
\* which both normalize it to IN001
C30_Witness ==
    /\ op = "validate_and_set_code"
    /\ arg.raw = PyStr(<<" ","i","n","0","0","1","\n">>)
    /\ validate_income_code(arg.raw)
    /\ out = Ok(ValidCode)

\* the values a stored record is compared with: every stored record, a
\* record with the code IN001 and other fields, and values that are no record
OtherRecords == {income_items[d] : d \in DOMAIN income_items} \cup {BaseItem}

NonRecords(r) == {PyStr(r.code), PyNone, PyFloat(0)}

\* C24: two records compare equal exactly when their codes are equal,
\* whatever their description, date and amounts; equal records have equal
\* hashes; a record never equals a value that is not a record.
C24_EqualityByCode ==
    \A c \in DOMAIN income_items :
        \E r \in {income_items[c]} :
            /\ \A other \in OtherRecords :
                   /\ __eq__(r, other) <=> r.code = other.code
                   /\ __eq__(r, other) => __hash__(r) = __hash__(other)
            /\ \A v \in NonRecords(r) : ~__eq__(r, v)

\* the stored IN001 equals the record IN001 with another description, date
\* and amounts, and does not equal the stored SA002
C24_Witness ==
    /\ DOMAIN income_items = {ValidCode, OtherCode}
    /\ income_items[ValidCode] # BaseItem
    /\ income_items[ValidCode].description # BaseItem.description
    /\ income_items[ValidCode].income_amount # BaseItem.income_amount
    /\ __eq__(income_items[ValidCode], BaseItem)
    /\ __hash__(income_items[ValidCode]) = __hash__(BaseItem)
    /\ ~__eq__(income_items[ValidCode], income_items[OtherCode])
    /\ ~__eq__(income_items[ValidCode], PyStr(ValidCode))

----------------------------------------------------------------------------
(* Storage lines: re-encoding *)

\* from_file_line(l) succeeds and the record it returns is rendered as l
Canonical(l) ==
    \E r \in {from_file_line(l)} : r.ok /\ to_file_line(r.val) = l

\* C23: the line re-encoded from the record that from_file_line returned is
\* canonical (it decodes, and the record decoded from it is rendered as the
\* same line), and the line rendered from a valid record decodes to a record
\* that is rendered as the same line, character for character.
C23_CanonicalReencoding ==
    /\ (op = "from_file_line" /\ item # NoItem) =>
           Canonical(to_file_line(item))
    /\ (op = "to_file_line" /\ RecordValid(src)) => Canonical(line.text)

----------------------------------------------------------------------------
(* The files: FileHandler, and the manager's load, save and export *)

\* a file that exists: its text, and whether it can be opened and read
File(text) == [exists |-> TRUE, readable |-> TRUE, text |-> text]
Unreadable(text) == [exists |-> TRUE, readable |-> FALSE, text |-> text]

\* what "for line in lines: file.write(line + '\n')" puts in the file
RECURSIVE Written(_)
Written(lines) ==
    IF lines = <<>> THEN <<>>
    ELSE Head(lines) \o <<"\n">> \o Written(Tail(lines))

\* file.readlines(): the lines with their newline, and a last line that has
\* none
readlines(text) ==
    LET Lines(p) ==
            [i \in 1..(Len(p) - 1) |-> p[i] \o <<"\n">>]
                \o (IF p[Len(p)] = <<>> THEN <<>> ELSE <<p[Len(p)]>>)
    IN  Lines(split(text, "\n"))

\* read_data_file: [] for a missing file, None for a file that cannot be
\* read, else the stripped lines that are not blank
read_data_file(f) ==
    IF ~f.exists THEN Ok(<<>>)
    ELSE IF ~f.readable THEN PyNone
    ELSE LET NotBlank(l) == l # <<>>
             Stripped(lines) == [i \in DOMAIN lines |-> strip(lines[i])]
         IN  Ok(SelectSeq(Stripped(readlines(f.text)), NotBlank))

\* write_data_file: the file after the call and the value returned.  The
\* call succeeds; or open() raises IOError and leaves the file as it was; or
\* open() has emptied the file and the buffered lines fail to reach it.
write_data_file(f, data_lines) ==
    {[file |-> File(Written(data_lines)), success |-> TRUE],
     [file |-> f, success |-> FALSE],
     [file |-> File(<<>>), success |-> FALSE]}

\* write_csv_file
write_csv_file(f, csv_lines) ==
    {[file |-> File(Written(csv_lines)), success |-> TRUE],
     [file |-> f, success |-> FALSE],
     [file |-> File(<<>>), success |-> FALSE]}

\* self.income_items.values(): the dict iterates in the order its keys were
\* inserted, which the collection of the model does not record; the records
\* come in any order of the keys
values(items) ==
    {[i \in DOMAIN o |-> items[o[i]]] :
        o \in {q \in [1..Cardinality(DOMAIN items) -> DOMAIN items] :
                  \A i, j \in DOMAIN q : q[i] = q[j] => i = j}}

\* what a call that touches a file leaves: the file, the value returned and
\* the message printed
Saved(file, value, msg) == [file |-> file, value |-> value, msg |-> msg]

\* save_data
save_data(items, f) ==
    {Saved(w.file, w.success,
           IF w.success THEN <<"Data saved successfully">>
           ELSE <<"Failed to save data!">>) :
        w \in UNION {write_data_file(f, [i \in DOMAIN v |-> to_file_line(v[i])]) :
                        v \in values(items)}}

Header ==
    << "I","n","c","o","m","e","_","C","o","d","e",",",
       "D","e","s","c","r","i","p","t","i","o","n",",",
       "D","a","t","e",",",
       "I","n","c","o","m","e","_","A","m","o","u","n","t",",",
       "W","H","T","_","A","m","o","u","n","t",",",
       "C","h","e","c","k","s","u","m" >>

\* variant: the report is written without the header line
generate_income_sheet_NoHeader(items, f) ==
    IF DOMAIN items = {}
    THEN {Saved(f, FALSE, <<"No income items to export!">>)}
    ELSE {Saved(w.file, w.success,
                IF w.success THEN <<"Income sheet generated successfully">>
                ELSE <<"Failed to generate income sheet!">>) :
             w \in UNION {write_csv_file(f,
                              [i \in DOMAIN v |-> to_csv_line(v[i])]) :
                             v \in values(items)}}

\* generate_income_sheet
generate_income_sheet(items, f) ==
    IF DOMAIN items = {}
    THEN {Saved(f, FALSE, <<"No income items to export!">>)}
    ELSE {Saved(w.file, w.success,
                IF w.success THEN <<"Income sheet generated successfully">>
                ELSE <<"Failed to generate income sheet!">>) :
             w \in UNION {write_csv_file(f,
                              <<Header>> \o
                              [i \in DOMAIN v |-> to_csv_line(v[i])]) :
                             v \in values(items)}}

\* the loop of load_data over the lines: the collection it leaves, and the
\* two counters
Loaded(items, loaded_count, error_count) ==
    [items |-> items, loaded_count |-> loaded_count,
     error_count |-> error_count]

RECURSIVE LoadLines(_, _)
LoadLines(acc, lines) ==
    IF lines = <<>> THEN acc
    ELSE IF strip(Head(lines)) = <<>> THEN LoadLines(acc, Tail(lines))
    ELSE LET Step(r) ==
                 IF r.ok
                 THEN Loaded(Put(acc.items, r.val.code, r.val),
                             acc.loaded_count + 1, acc.error_count)
                 ELSE Loaded(acc.items, acc.loaded_count,
                             acc.error_count + 1)
         IN  LoadLines(Step(from_file_line(Head(lines))), Tail(lines))

\* the messages load_data prints after the loop
LoadMessage(l) ==
    <<"Data loaded successfully: ", str(l.loaded_count), " items loaded">>
        \o (IF l.error_count > 0
            THEN <<"Warning: ", str(l.error_count),
                   " lines had errors and were skipped">>
            ELSE <<>>)

\* variant: load_data empties the collection before it reads the lines
load_data_Replaces(items, f) ==
    IF ~f.exists THEN Result(items, TRUE, <<"No existing data file found.">>)
    ELSE LET Read(lines) ==
                 IF lines = PyNone
                 THEN Result(items, FALSE, <<"Error reading data file!">>)
                 ELSE LET Done(l) == Result(l.items, TRUE, LoadMessage(l))
                      IN  Done(LoadLines(Loaded(Empty, 0, 0), lines.val))
         IN  Read(read_data_file(f))

\* load_data
load_data(items, f) ==
    IF ~f.exists THEN Result(items, TRUE, <<"No existing data file found.">>)
    ELSE LET Read(lines) ==
                 IF lines = PyNone
                 THEN Result(items, FALSE, <<"Error reading data file!">>)
                 ELSE LET Done(l) == Result(l.items, TRUE, LoadMessage(l))
                      IN  Done(LoadLines(Loaded(items, 0, 0), lines.val))
         IN  Read(read_data_file(f))

----------------------------------------------------------------------------
(* The manager with its files (SpecStore): the calls that change the       *)
(* collection, with the arguments that matter to the files, and load_data, *)
(* save_data and generate_income_sheet                                     *)

StoreAdds ==
    {[code |-> ValidCode, description |-> Pay, income_amount |-> PyFloat(12340)],
     [code |-> ValidCode, description |-> Pay, income_amount |-> PyFloat(1)],
     [code |-> <<" ","s","a","0","0","2">>, description |-> Pay,
      income_amount |-> PyFloat(12340)]}

StoreKeys == {<<"i","n","0","0","1">>, OtherCode}

GoodLine ==
    FileLine(ValidCode, Pay, ValidDate, <<"1","2",".","3","4">>, <<"0",".","0","0">>)

PaddedLine ==
    FileLine(<<" ","i","n","0","0","1">>, <<" ","O","l","d"," ">>, OtherDate,
             <<"1","2",".","3","4","9">>, <<"0">>)

BadLine == FileLine(OtherCode, Pay, ValidDate, <<"a","b","c">>, <<"0">>)

\* a file left by an earlier run and edited by hand: a good line, a blank
\* line, a line with a bad amount, a second line for IN001, and a last line
\* without a newline
EditedFile ==
    File(Written(<<GoodLine, <<" ">>, BadLine, PaddedLine>>) \o <<"b","a","d">>)

InitialFiles == {NoFile, EditedFile, Unreadable(<<>>)}

InitStore ==
    /\ op = "init"
    /\ ret = NoRet
    /\ income_items = Empty
    /\ data_file \in InitialFiles
    /\ csv_file = NoFile
    /\ item = NoItem
    /\ line = NoLine
    /\ src = NoItem
    /\ arg = NoArg
    /\ out = NoOut
    /\ pc = "none"
    /\ choice = NoChoice

StoreAdd ==
    \E a \in StoreAdds :
        \E r \in {add_income(income_items, PyStr(a.code), PyStr(a.description),
                             PyStr(ValidDate), a.income_amount, PyFloat(0))} :
            /\ op' = "add_income"
            /\ income_items' = r.items
            /\ ret' = [value |-> r.value, err |-> r.msg]
            /\ UNCHANGED <<files, loop, item, line, src, arg, out>>

StoreDelete ==
    \E code \in StoreKeys :
        \E r \in {delete_income(income_items, code)} :
            /\ op' = "delete_income"
            /\ income_items' = r.items
            /\ ret' = [value |-> r.value, err |-> r.msg]
            /\ UNCHANGED <<files, loop, item, line, src, arg, out>>

StoreUpdate ==
    \E description \in {PyStr(New1), PyStr(<<>>)} :
        \E r \in {update_income(income_items, OtherCode, description,
                                PyNone, PyNone, PyNone)} :
            /\ op' = "update_income"
            /\ income_items' = r.items
            /\ ret' = [value |-> r.value, err |-> r.msg]
            /\ UNCHANGED <<files, loop, item, line, src, arg, out>>

StoreClear ==
    \E r \in {clear_all_data(income_items)} :
        /\ op' = "clear_all_data"
        /\ income_items' = r.items
        /\ ret' = [value |-> r.value, err |-> r.msg]
        /\ UNCHANGED <<files, loop, item, line, src, arg, out>>

LoadData ==
    \E r \in {load_data(income_items, data_file)} :
        /\ op' = "load_data"
        /\ income_items' = r.items
        /\ ret' = [value |-> r.value, err |-> r.msg]
        /\ UNCHANGED <<files, loop, item, line, src, arg, out>>

SaveData ==
    \E r \in save_data(income_items, data_file) :
        /\ op' = "save_data"
        /\ data_file' = r.file
        /\ ret' = [value |-> r.value, err |-> r.msg]
        /\ UNCHANGED <<csv_file, loop, income_items, item, line, src, arg, out>>

GenerateIncomeSheet ==
    \E r \in generate_income_sheet(income_items, csv_file) :
        /\ op' = "generate_income_sheet"
        /\ csv_file' = r.file
        /\ ret' = [value |-> r.value, err |-> r.msg]
        /\ UNCHANGED <<data_file, loop, income_items, item, line, src, arg, out>>

NextStore ==
    \/ StoreAdd
    \/ StoreDelete
    \/ StoreUpdate
    \/ StoreClear
    \/ LoadData
    \/ SaveData
    \/ GenerateIncomeSheet

SpecStore == InitStore /\ [][NextStore]_vars


----------------------------------------------------------------------------
(* Properties of the manager with its files (SpecStore) *)

\* the file holds the header line and then one report line for each record
\* of the collection, each ended by a newline, and nothing else
ReportOf(f, items) ==
    /\ f.exists
    /\ \E ls \in {readlines(f.text)} :
           /\ Len(ls) = Cardinality(DOMAIN items) + 1
           /\ ls[1] = Header \o <<"\n">>
           /\ \A c \in DOMAIN items :
                  Cardinality({i \in 2..Len(ls) :
                                  ls[i] = to_csv_line(items[c]) \o <<"\n">>}) = 1

KeysAreCodes == \A c \in DOMAIN income_items : income_items[c].code = c

\* C25: in every state reachable through add_income, update_income,
\* delete_income, load_data and clear_all_data every key of the collection is
\* the code of the record stored under it, and every stored record passes
\* the validators of the record.
C25_CollectionKeys ==
    /\ KeysAreCodes
    /\ \A c \in DOMAIN income_items : RecordValid(income_items[c])

\* C26: after a successful save_data, load_data into a manager with an empty
\* collection restores the same codes with the same description, date,
\* income_amount and wht_amount, and skips no line as an error.
C26_PersistenceRoundTrip ==
    (op = "save_data" /\ ret.value) =>
        \E r \in {load_data(Empty, data_file)} :
            /\ r.value
            /\ r.items = income_items
            /\ r.msg = <<"Data loaded successfully: ",
                         str(Cardinality(DOMAIN income_items)),
                         " items loaded">>

\* the codes of the lines that were accepted, and the last accepted line
\* with the code c
AcceptedCodes(d) == {d[i].val.code : i \in {j \in DOMAIN d : d[j].ok}}

LastWith(d, c) ==
    CHOOSE i \in DOMAIN d :
        /\ d[i].ok /\ d[i].val.code = c
        /\ \A j \in DOMAIN d : (d[j].ok /\ d[j].val.code = c) => j <= i

\* C27: load_data of a readable file returns True; each code of an accepted
\* line then holds the record of the last accepted line with that code,
\* every other record in memory is kept as it was, nothing else is added,
\* and the lines that failed to parse are counted as errors.  A file that
\* does not exist, or cannot be read, changes nothing.
C27_LoadSkipsBadLines ==
    [][op' = "load_data" =>
          IF ~data_file.exists
          THEN ret'.value /\ income_items' = income_items
          ELSE IF ~data_file.readable
          THEN ~ret'.value /\ income_items' = income_items
          ELSE \E d \in {[i \in DOMAIN read_data_file(data_file).val |->
                             from_file_line(read_data_file(data_file).val[i])]} :
                  /\ ret'.value
                  /\ DOMAIN income_items' =
                         DOMAIN income_items \cup AcceptedCodes(d)
                  /\ \A c \in DOMAIN income_items' :
                         income_items'[c] =
                             IF c \in AcceptedCodes(d)
                             THEN d[LastWith(d, c)].val
                             ELSE income_items[c]
                  /\ ret'.err =
                         LoadMessage(
                             [loaded_count |->
                                  Cardinality({i \in DOMAIN d : d[i].ok}),
                              error_count |->
                                  Cardinality({i \in DOMAIN d : ~d[i].ok})])]_vars

\* the edited file loaded over a collection that held SA002: IN001 is the
\* record of its second line, SA002 is kept, two lines were skipped
C27_Witness ==
    /\ op = "load_data"
    /\ data_file = EditedFile
    /\ ret = [value |-> TRUE,
              err |-> <<"Data loaded successfully: ", <<"2">>, " items loaded",
                        "Warning: ", <<"2">>,
                        " lines had errors and were skipped">>]
    /\ DOMAIN income_items = {ValidCode, OtherCode}
    /\ income_items[ValidCode].description = <<"O","l","d">>
    /\ income_items[ValidCode].date = OtherDate
    /\ income_items[ValidCode].income_amount = PyFloat(12350)
    /\ income_items[OtherCode].description = Pay

----------------------------------------------------------------------------
(* The application loop: IRCSApplication.run, its prompt and its handlers  *)
(* (SpecApp).  pc is "start" before load_data, "menu" at the prompt for a *)
(* choice, "handler" when the branch of the choice is entered, "autosave"  *)
(* at the save that follows a handler, "exit" in the branch of choice 0,   *)
(* "interrupted" in the except KeyboardInterrupt clause of run, "stopped"  *)
(* when the loop has ended.  op and ret are the last call of the manager.  *)

\* what input() gives: a line typed, or EOFError, or KeyboardInterrupt
Typed(s) == [k |-> "line", s |-> s]
EOFError == [k |-> "EOFError"]
KeyboardInterrupt == [k |-> "KeyboardInterrupt"]

Choice(c) == PyStr(<<c>>)

\* variant: end of input at the prompt counts as an invalid choice
get_user_choice_EofInvalid(inp) ==
    IF inp.k = "KeyboardInterrupt" THEN Choice("0")
    ELSE IF inp.k = "EOFError" THEN PyNone
    ELSE IF strip(inp.s) \in {<<c>> : c \in {"0","1","2","3","4","5","6"}}
    THEN PyStr(strip(inp.s))
    ELSE PyNone

\* get_user_choice
get_user_choice(inp) ==
    IF inp.k # "line" THEN Choice("0")
    ELSE IF strip(inp.s) \in {<<c>> : c \in {"0","1","2","3","4","5","6"}}
    THEN PyStr(strip(inp.s))
    ELSE PyNone

\* the branch of run that the choice selects
Dispatch(c) ==
    IF c = Choice("0") THEN "exit"
    ELSE IF c = PyNone THEN "menu"
    ELSE "handler"

\* variant: only an add is followed by save_data
AutoSaved_AddOnly == {Choice("1")}

\* if choice in ['1', '2', '3']: self.manager.save_data()
AutoSaved == {Choice("1"), Choice("2"), Choice("3")}

\* where run goes when the handler of the choice has returned
AfterHandler(c) == IF c \in AutoSaved THEN "autosave" ELSE "menu"

MenuInputs ==
    {Typed(<<c>>) : c \in {"0","1","2","3","4","5","6","7","x"}}
        \cup {Typed(<<" ","2"," ">>), Typed(<<>>), Typed(<<"1","0">>),
              EOFError, KeyboardInterrupt}

\* what the user answers to the prompts of a handler
AppCodes == {<<" ","i","n","0","0","1"," ">>, <<"I","N","1">>}
AppDescriptions == {<<" ","P","a","y">>, <<>>}
AppDates == {ValidDate, BadDate}
AppIncomes == {<<"1","2",".","3","4">>, <<"0">>, <<"a","b","c">>}
AppWhts == {<<"0">>, <<"-","3">>}

\* the pre-checks of the prompts for description, date and the two amounts
\* (the handler asks again until they pass)
Prechecked(description, date, income, wht) ==
    /\ Len(strip(description)) \in 1..MaxDescriptionLen
    /\ validate_date(PyStr(strip(date)))
    /\ \E f \in {float(PyStr(strip(income)))} : f.ok /\ GtZero(f.val)
    /\ \E f \in {float(PyStr(strip(wht)))} : f.ok /\ GeZero(f.val)

\* the file an earlier run left, with a line added by hand
LeftFile == File(Written(<<GoodLine>>) \o <<"b","a","d">>)

InitApp ==
    /\ op = "init"
    /\ ret = NoRet
    /\ income_items = Empty
    /\ data_file \in {NoFile, LeftFile}
    /\ csv_file = NoFile
    /\ item = NoItem
    /\ line = NoLine
    /\ src = NoItem
    /\ arg = NoArg
    /\ out = NoOut
    /\ pc = "start"
    /\ choice = NoChoice

\* self.manager.load_data(), before the loop
RunLoad ==
    /\ pc = "start"
    /\ \E r \in {load_data(income_items, data_file)} :
           /\ op' = "load_data"
           /\ income_items' = r.items
           /\ ret' = [value |-> r.value, err |-> r.msg]
    /\ pc' = "menu"
    /\ UNCHANGED <<files, choice, item, line, src, arg, out>>

\* display_menu(); choice = get_user_choice(), and the branch on the choice
GetUserChoice ==
    /\ pc = "menu"
    /\ \E inp \in MenuInputs :
           \E c \in {get_user_choice(inp)} :
               /\ choice' = c
               /\ pc' = Dispatch(c)
    /\ UNCHANGED <<op, ret, income_items, files, item, line, src, arg, out>>

\* handle_add_income: the prompts answered until the pre-checks pass, then
\* add_income; or EOFError at a prompt, caught by the handler
HandleAddIncome ==
    /\ pc = "handler" /\ choice = Choice("1")
    /\ pc' = AfterHandler(choice)
    /\ \/ \E c \in AppCodes, description \in AppDescriptions, date \in AppDates,
             income \in AppIncomes, wht \in AppWhts :
              /\ validate_income_code(PyStr(upper(strip(c))))
              /\ ~code_exists(income_items, upper(strip(c)))
              /\ Prechecked(description, date, income, wht)
              /\ \E r \in {add_income(income_items, PyStr(upper(strip(c))),
                                      PyStr(strip(description)),
                                      PyStr(strip(date)),
                                      float(PyStr(strip(income))).val,
                                      float(PyStr(strip(wht))).val)} :
                     /\ op' = "add_income"
                     /\ income_items' = r.items
                     /\ ret' = [value |-> r.value, err |-> r.msg]
       \/ UNCHANGED <<op, ret, income_items>>
    /\ UNCHANGED <<files, choice, item, line, src, arg, out>>

\* handle_delete_income
HandleDeleteIncome ==
    /\ pc = "handler" /\ choice = Choice("2")
    /\ pc' = AfterHandler(choice)
    /\ \/ \E c \in AppCodes :
              \E r \in {delete_income(income_items, upper(strip(c)))} :
                  /\ op' = "delete_income"
                  /\ income_items' = r.items
                  /\ ret' = [value |-> r.value, err |-> r.msg]
       \/ UNCHANGED <<op, ret, income_items>>
    /\ UNCHANGED <<files, choice, item, line, src, arg, out>>

\* handle_update_income: it returns at once for a code that is not held
HandleUpdateIncome ==
    /\ pc = "handler" /\ choice = Choice("3")
    /\ pc' = AfterHandler(choice)
    /\ \/ \E c \in AppCodes :
              /\ ~code_exists(income_items, upper(strip(c)))
              /\ op' = "code_exists"
              /\ ret' = [value |-> FALSE, err |-> <<"not found!">>]
              /\ UNCHANGED income_items
       \/ \E c \in AppCodes, date \in AppDates, income \in AppIncomes,
             wht \in AppWhts :
              /\ code_exists(income_items, upper(strip(c)))
              /\ Prechecked(New1, date, income, wht)
              /\ \E r \in {update_income(income_items, upper(strip(c)),
                                         PyStr(New1), PyStr(strip(date)),
                                         float(PyStr(strip(income))).val,
                                         float(PyStr(strip(wht))).val)} :
                     /\ op' = "update_income"
                     /\ income_items' = r.items
                     /\ ret' = [value |-> r.value, err |-> r.msg]
       \/ UNCHANGED <<op, ret, income_items>>
    /\ UNCHANGED <<files, choice, item, line, src, arg, out>>

\* handle_search_income
HandleSearchIncome ==
    /\ pc = "handler" /\ choice = Choice("4")
    /\ pc' = AfterHandler(choice)
    /\ \/ \E c \in AppCodes :
              /\ op' = "search_income"
              /\ ret' = [value |->
                             search_income(income_items, upper(strip(c))) # PyNone,
                         err |-> <<>>]
       \/ UNCHANGED <<op, ret>>
    /\ UNCHANGED <<income_items, files, choice, item, line, src, arg, out>>

\* handle_generate_sheet
HandleGenerateSheet ==
    /\ pc = "handler" /\ choice = Choice("5")
    /\ pc' = AfterHandler(choice)
    /\ \E r \in generate_income_sheet(income_items, csv_file) :
           /\ op' = "generate_income_sheet"
           /\ csv_file' = r.file
           /\ ret' = [value |-> r.value, err |-> r.msg]
    /\ UNCHANGED <<income_items, data_file, choice, item, line, src, arg, out>>

\* handle_view_all
HandleViewAll ==
    /\ pc = "handler" /\ choice = Choice("6")
    /\ pc' = AfterHandler(choice)
    /\ op' = "get_all_items"
    /\ ret' = [value |-> DOMAIN income_items # {}, err |-> <<>>]
    /\ UNCHANGED <<income_items, files, choice, item, line, src, arg, out>>

\* the save_data that follows the handlers of 1, 2 and 3
AutoSave ==
    /\ pc = "autosave"
    /\ \E r \in save_data(income_items, data_file) :
           /\ op' = "save_data"
           /\ data_file' = r.file
           /\ ret' = [value |-> r.value, err |-> r.msg]
    /\ pc' = "menu"
    /\ UNCHANGED <<income_items, csv_file, choice, item, line, src, arg, out>>

\* choice 0: save_data, then running = False
ExitSave ==
    /\ pc = "exit"
    /\ \E r \in save_data(income_items, data_file) :
           /\ op' = "save_data"
           /\ data_file' = r.file
           /\ ret' = [value |-> r.value, err |-> r.msg]
    /\ pc' = "stopped"
    /\ UNCHANGED <<income_items, csv_file, choice, item, line, src, arg, out>>

\* KeyboardInterrupt raised in the try block of run outside the prompt for
\* the choice: in display_menu, at a prompt of a handler (the handlers catch
\* Exception, which KeyboardInterrupt is not), or before a save
Interrupt ==
    /\ pc \in {"menu", "handler", "autosave", "exit"}
    /\ pc' = "interrupted"
    /\ UNCHANGED <<op, ret, income_items, files, choice, item, line, src, arg, out>>

\* except KeyboardInterrupt: save_data, then break
InterruptSave ==
    /\ pc = "interrupted"
    /\ \E r \in save_data(income_items, data_file) :
           /\ op' = "save_data"
           /\ data_file' = r.file
           /\ ret' = [value |-> r.value, err |-> r.msg]
    /\ pc' = "stopped"
    /\ UNCHANGED <<income_items, csv_file, choice, item, line, src, arg, out>>

NextApp ==
    \/ RunLoad
    \/ GetUserChoice
    \/ HandleAddIncome
    \/ HandleDeleteIncome
    \/ HandleUpdateIncome
    \/ HandleSearchIncome
    \/ HandleGenerateSheet
    \/ HandleViewAll
    \/ AutoSave
    \/ ExitSave
    \/ Interrupt
    \/ InterruptSave

SpecApp == InitApp /\ [][NextApp]_vars

\* the loop is not held up for ever before a save_data it has reached
SpecAppLive ==
    SpecApp /\ WF_vars(ExitSave) /\ WF_vars(InterruptSave)

----------------------------------------------------------------------------
(* Properties of the application loop (SpecApp, SpecAppLive) *)

\* the file holds one storage line for each record of the collection, each
\* ended by a newline, and nothing else
DataOf(f, items) ==
    /\ f.exists
    /\ \E ls \in {readlines(f.text)} :
           /\ Len(ls) = Cardinality(DOMAIN items)
           /\ \A c \in DOMAIN items :
                  Cardinality({i \in DOMAIN ls :
                                  ls[i] = to_file_line(items[c]) \o <<"\n">>}) = 1

Changing == {Choice("1"), Choice("2"), Choice("3")}
Reading == {Choice("4"), Choice("5"), Choice("6")}

\* C28: the handler of choice 1, 2 or 3 is followed by save_data before the
\* next prompt for a choice, whatever the handler did, so at a prompt that
\* follows such a choice the last call was save_data and, if it succeeded,
\* the storage file holds the storage lines of the collection as it is; the
\* handlers of 4, 5 and 6 change neither the collection nor the storage file
\* and go back to the prompt without a save.
C28_AutoSaveOrdering ==
    [][/\ (pc = "handler" /\ choice \in Changing) =>
              pc' \in {"autosave", "interrupted"}
       /\ pc = "autosave" => (op' = "save_data" \/ pc' = "interrupted")
       /\ (pc' = "menu" /\ choice' \in Changing) =>
              /\ op' = "save_data"
              /\ ret'.value => DataOf(data_file', income_items')
       /\ (pc = "handler" /\ choice \in Reading) =>
              /\ income_items' = income_items
              /\ data_file' = data_file
              /\ <<op', ret'>> # <<op, ret>> => op' # "save_data"
              /\ pc' \in {"menu", "interrupted"}]_vars

\* back at the prompt after an update of IN001: the storage file holds the
\* line of the record as updated
C28_Witness ==
    /\ pc = "menu"
    /\ choice = Choice("3")
    /\ op = "save_data"
    /\ ret.value
    /\ DOMAIN income_items = {ValidCode}
    /\ income_items[ValidCode].description = New1
    /\ data_file = File(to_file_line(income_items[ValidCode]) \o <<"\n">>)

\* the step is get_user_choice with this input at the prompt
IsGetUserChoiceCall(inp) ==
    /\ pc = "menu"
    /\ choice' = get_user_choice(inp)
    /\ pc' = Dispatch(choice')

\* what is typed is one of 0..6, surrounding blanks aside
ValidChoice(inp) ==
    inp.k = "line" /\ \E c \in {"0","1","2","3","4","5","6"} : strip(inp.s) = <<c>>

\* C29: choice 0, end of input at the prompt for the choice, and a keyboard
\* interrupt each lead to save_data and then to the end of the loop: the
\* loop stops only by a save_data step, nothing is executed after it has
\* stopped, and once the exit branch or the interrupt clause is entered the
\* loop does stop.  An invalid choice calls nothing of the manager and the
\* loop prompts again.
C29_ExitProtocol ==
    /\ [][\A inp \in MenuInputs :
              IsGetUserChoiceCall(inp) =>
                  /\ (inp.k # "line" \/ strip(inp.s) = <<"0">>) => pc' = "exit"
                  /\ (inp.k = "line" /\ ~ValidChoice(inp)) =>
                         /\ pc' = "menu"
                         /\ UNCHANGED <<op, ret, income_items, files>>]_vars
    /\ [][pc' = "stopped" =>
              /\ pc \in {"exit", "interrupted"}
              /\ op' = "save_data"]_vars
    /\ [][pc # "stopped"]_vars
    /\ (pc \in {"exit", "interrupted"}) ~> (pc = "stopped" /\ op = "save_data")

\* stopped after choice 0, the collection saved
C29_Witness ==
    /\ pc = "stopped"
    /\ choice = Choice("0")
    /\ op = "save_data"
    /\ ret.value
    /\ DOMAIN income_items = {ValidCode}
    /\ DataOf(data_file, income_items)

====
